---- MODULE Spec2Model ----
(***************************************************************************)
(* Model of the SEML experiment lifecycle and dispatch engine              *)
(* (src/src/seml/start.py): the experiment collection, `seml start` in     *)
(* Slurm and local mode, the local worker loop, the Preparation Hook       *)
(* (prepare-experiment) and the chunker / array batcher.                   *)
(***************************************************************************)
EXTENDS Integers, Sequences, FiniteSets, TLC

\* ------------------------------------------------------------------ bounds
NumExps == 1        \* experiment ids are 1..NumExps
MaxJobs == 2        \* sbatch submissions (Slurm array job ids 1..MaxJobs)
MaxPerJob == 2      \* slurm.experiments_per_job is drawn from 1..MaxPerJob
MaxLen == 3         \* longest input list of the chunker specification
MaxBatch == 2       \* batch ids of the chunker specification are 1..MaxBatch
MaxCalls == 3       \* concurrent claim calls of the claim specification
MaxDocs == 2        \* documents of the dispatch specification
MaxFlags == 3       \* options given on one `seml start` command line
MaxTokens == 6      \* tokens of a description

\* An absent field of a document / an unset environment variable / Python None.
None == -1

Ids == 1..NumExps
\* The ids prepare-experiment is called with: one of them is never stored.
HookIds == 1..(NumExps + 1)
JobIds == 1..MaxJobs

\* SETTINGS.STATES: the status partitions used as filters.
StatesSTAGED == {"STAGED", "QUEUED"}
StatesPENDING == {"PENDING"}
StatesRUNNING == {"RUNNING"}
StatesTerminal == {"COMPLETED", "FAILED", "INTERRUPTED", "KILLED"}

\* find_one / find_one_and_update returning None.
NullExp == [_id |-> None]

\* The Slurm environment of a process outside every Slurm array task.
NoEnv == [array |-> None, task |-> None]

Min(a, b) == IF a < b THEN a ELSE b

\* ------------------------------------------------------ the collection
\* `coll` is a function from the ids of the stored documents to documents.
FindOneById(coll, id) == IF id \in DOMAIN coll THEN coll[id] ELSE NullExp

CountById(coll, id) == IF id \in DOMAIN coll THEN 1 ELSE 0

\* update_one({'_id': id}, {'$set': ...}): `new` is the document after $set.
UpdateOne(coll, id, new) ==
    IF id \in DOMAIN coll THEN [coll EXCEPT ![id] = new] ELSE coll

\* ---------------------------------- get_experiment_and_set_running
\* The filter of the Slurm-task variant.
SlurmTaskFilter(d, exp_id, env) ==
    /\ d._id = exp_id
    /\ \/ d.status \in StatesPENDING
       \/ (d.array_id = env.array /\ d.task_id = env.task)

LocalFilterAnyStatus(d, exp_id) == d._id = exp_id

\* The filter of the local ("steal slurm") variant.
LocalFilter(d, exp_id) ==
    d._id = exp_id /\ d.status \in StatesPENDING

InSlurmTask(env) == env.array # None /\ env.task # None

ClaimMatches(coll, exp_id, env) ==
    /\ exp_id \in DOMAIN coll
    /\ IF InSlurmTask(env) THEN SlurmTaskFilter(coll[exp_id], exp_id, env)
                           ELSE LocalFilter(coll[exp_id], exp_id)

ClaimUpdateKeepsIds(d, env) == [d EXCEPT !.status = "RUNNING"]

\* $set status RUNNING; the local variant also $unset's the Slurm ids.
ClaimUpdate(d, env) ==
    IF InSlurmTask(env)
    THEN [d EXCEPT !.status = "RUNNING"]
    ELSE [d EXCEPT !.status = "RUNNING", !.array_id = None, !.task_id = None]

\* The result: the returned document (as it was BEFORE the update, or
\* NullExp), the collection afterwards and whether a document was written.
GetExperimentAndSetRunningUnobservedToo(coll, exp_id, unobserved, env) ==
    IF ClaimMatches(coll, exp_id, env)
    THEN [ret |-> coll[exp_id],
          coll |-> [coll EXCEPT ![exp_id] = ClaimUpdate(coll[exp_id], env)],
          wrote |-> TRUE]
    ELSE [ret |-> NullExp, coll |-> coll, wrote |-> FALSE]

GetExperimentAndSetRunning(coll, exp_id, unobserved, env) ==
    IF unobserved
    THEN [ret |-> FindOneById(coll, exp_id), coll |-> coll, wrote |-> FALSE]
    ELSE IF ClaimMatches(coll, exp_id, env)
    THEN [ret |-> coll[exp_id],
          coll |-> [coll EXCEPT ![exp_id] = ClaimUpdate(coll[exp_id], env)],
          wrote |-> TRUE]
    ELSE [ret |-> NullExp, coll |-> coll, wrote |-> FALSE]

\* ------------------------------------------- chunk_list / batch_chunks
\* np.unique: the distinct values of a sequence, ascending.
RECURSIVE SortedSeq(_)
SortedSeq(S) ==
    IF S = {} THEN << >>
    ELSE LET m == CHOOSE x \in S : \A y \in S : x <= y
         IN <<m>> \o SortedSeq(S \ {m})

Unique(s) == SortedSeq({s[i] : i \in 1..Len(s)})

\* [i for i, x in enumerate(s) if x == v], ascending.
IndicesOf(s, v) == SortedSeq({i \in 1..Len(s) : s[i] = v})

RECURSIVE Flatten(_)
Flatten(ss) == IF ss = << >> THEN << >> ELSE Head(ss) \o Flatten(Tail(ss))

\* range(0, n, size): the chunk start positions, as a count of chunks.
NumChunks(n, size) == (n + size - 1) \div size

ChunksOfBatchNoIdx(exps, batch) ==
    LET batch_idx == [i \in 1..Len(exps) |-> exps[i].batch_id]
        idx == IndicesOf(batch_idx, batch)
        size == exps[idx[1]].experiments_per_job
    IN [k \in 1..NumChunks(Len(idx), size) |->
           [j \in 1..Min(size, Len(idx) - (k - 1) * size) |->
               exps[(k - 1) * size + j]]]

\* The chunks of one batch: exps[i] for i in idx[pos : pos + size].
ChunksOfBatch(exps, batch) ==
    LET batch_idx == [i \in 1..Len(exps) |-> exps[i].batch_id]
        idx == IndicesOf(batch_idx, batch)
        size == exps[idx[1]].experiments_per_job
    IN [k \in 1..NumChunks(Len(idx), size) |->
           [j \in 1..Min(size, Len(idx) - (k - 1) * size) |->
               exps[idx[(k - 1) * size + j]]]]

ChunkListWholeBatches(exps) ==
    LET batch_idx == [i \in 1..Len(exps) |-> exps[i].batch_id]
        unique_batch_idx == Unique(batch_idx)
    IN [b \in 1..Len(unique_batch_idx) |->
           [j \in 1..Len(IndicesOf(batch_idx, unique_batch_idx[b])) |->
               exps[IndicesOf(batch_idx, unique_batch_idx[b])[j]]]]

ChunkList(exps) ==
    LET batch_idx == [i \in 1..Len(exps) |-> exps[i].batch_id]
        unique_batch_idx == Unique(batch_idx)
    IN Flatten([b \in 1..Len(unique_batch_idx) |->
                   ChunksOfBatch(exps, unique_batch_idx[b])])

BatchChunksOnePerChunk(exp_chunks) ==
    [c \in 1..Len(exp_chunks) |-> <<exp_chunks[c]>>]

BatchChunks(exp_chunks) ==
    LET batch_idx == [c \in 1..Len(exp_chunks) |-> exp_chunks[c][1].batch_id]
        unique_batch_idx == Unique(batch_idx)
        ids_per_array == [a \in 1..Len(unique_batch_idx) |->
                             IndicesOf(batch_idx, unique_batch_idx[a])]
    IN [a \in 1..Len(ids_per_array) |->
           [c \in 1..Len(ids_per_array[a]) |-> exp_chunks[ids_per_array[a][c]]]]

\* -------------------------------------------------------- documents
\* seml.output_file: "{dir}/{name}_{A}_{T}.out" and "{dir}/{name}_{id}.out"
\* are kept as the numbers that are formatted into the name.
NoFile == << >>
SbatchOutputFileTaskOnly(array_id, task_id) == <<task_id>>
SbatchOutputFile(array_id, task_id) == <<array_id, task_id>>
LocalOutputFile(id) == <<id>>

\* seml.command / seml.command_unresolved: unset, or the command's tokens.
NoCommand == << >>

\* slurm.sbatch_options as the batch's configuration sets it: the keys that
\* matter to the dispatcher, `comment` with its value (the collection's name
\* or another string).
NoOptions == {}
OptionSets ==
    {NoOptions, {"output"}, {"job-name"}, {"comment=other"}, {"comment=collection"}}

\* A document as staging leaves it (created externally as STAGED):
\* `executable` and `source_files` tell whether seml.executable and
\* seml.source_files are present.
StagedDoc(id, batch, per_job) ==
    [_id |-> id, batch_id |-> batch, experiments_per_job |-> per_job,
     sbatch_options |-> NoOptions, executable |-> TRUE, source_files |-> TRUE,
     status |-> "STAGED", array_id |-> None, task_id |-> None,
     output_file |-> NoFile, command |-> NoCommand, temp_dir |-> FALSE]

\* The fields of a found experiment that the dispatcher reads later.
Projection(d) ==
    [_id |-> d._id, batch_id |-> d.batch_id,
     experiments_per_job |-> d.experiments_per_job,
     sbatch_options |-> d.sbatch_options, source_files |-> d.source_files]

\* The collection's name and the executable, as they appear in a command.
CollectionName == "coll"
Executable == "train.py"

\* The interpreter of a command: `python`, or debugpy listening on a free port.
Python == "python"
Debugpy == "python -m debugpy --listen ip:port --wait-for-client"

\* No command: get_command_from_exp raised `error`.
CommandError(error) ==
    [error |-> error, interpreter |-> "", exe |-> "", config_strings |-> << >>]

GetCommandFromExpNoOverwrite(exp, verbose, unobserved, post_mortem, debug, debug_server) ==
    IF ~exp.executable THEN CommandError("MongoDBError")
    ELSE [error |-> "",
          interpreter |-> IF debug_server THEN Debugpy ELSE Python,
          exe |-> Executable,
          config_strings |->
              <<"db_collection=" \o CollectionName>>
              \o (IF verbose THEN << >> ELSE <<"--force">>)
              \o (IF unobserved THEN <<"--unobserved">> ELSE << >>)
              \o (IF post_mortem THEN <<"--pdb">> ELSE << >>)
              \o (IF debug THEN <<"--debug">> ELSE << >>)]

\* get_command_from_exp: (interpreter, exe, config_strings), or the error
\* raised. The experiment's own config entries come first in config_strings
\* and are left out; db_collection and overwrite are the injected entries.
GetCommandFromExp(exp, verbose, unobserved, post_mortem, debug, debug_server) ==
    IF ~exp.executable THEN CommandError("MongoDBError")
    ELSE [error |-> "",
          interpreter |-> IF debug_server THEN Debugpy ELSE Python,
          exe |-> Executable,
          config_strings |->
              <<"db_collection=" \o CollectionName>>
              \o (IF unobserved THEN << >>
                  ELSE <<"overwrite=" \o ToString(exp._id)>>)
              \o (IF verbose THEN << >> ELSE <<"--force">>)
              \o (IF unobserved THEN <<"--unobserved">> ELSE << >>)
              \o (IF post_mortem THEN <<"--pdb">> ELSE << >>)
              \o (IF debug THEN <<"--debug">> ELSE << >>)]

\* get_shell_command without env: f'{interpreter} {exe} with {config_overrides}'
GetShellCommand(interpreter, exe, config) ==
    <<interpreter, exe, "with">> \o config

\* ------------------------------------------------------------ state
Starters == {"s1"}
HookProcs == {"h1"}

VARIABLES
    collection,   \* the experiment collection: id -> document
    start,        \* the `seml start` processes (orchestrator + local worker)
    hook,         \* the prepare-experiment processes and the command they eval
    queue,        \* the Slurm array tasks submitted by sbatch
    jobCount,     \* the number of sbatch submissions so far
    launched,     \* the hook invocations the Slurm tasks have made
    scripts,      \* the sbatch temp scripts on disk
    temp_dirs,    \* the per-run temp directories of local jobs on disk
    input_exps,   \* chunker specification: the input list exps
    out_chunks,   \* chunker specification: chunk_list(exps)
    out_arrays,   \* chunker specification: batch_chunks(exp_chunks)
    chunk_pc,     \* chunker specification: position
    claim_calls,  \* claim specifications: the callers
    command_call, \* command specification: one get_command_from_exp call
    description_call, \* description specification: one collection_set_description call
    project       \* project specification: one init_project call and its directory

dispatchVars ==
    <<collection, start, hook, queue, jobCount, launched, scripts, temp_dirs>>
chunkVars == <<input_exps, out_chunks, out_arrays, chunk_pc>>
claimVars == <<claim_calls>>
commandVars == <<command_call>>
toolVars == <<description_call, project>>
vars == <<dispatchVars, chunkVars, claimVars, commandVars, toolVars>>

IdleStart ==
    [pc |-> "idle", local |-> FALSE, steal_slurm |-> FALSE, num_exps |-> 0,
     sacred_id |-> None, filter_dict |-> << >>, experiments |-> << >>, arrays |-> << >>,
     todo |-> << >>, array_id |-> None, exp |-> NullExp,
     slurm_ids |-> NoEnv, jobs_counter |-> 0, cleaned |-> FALSE,
     path |-> None, exit |-> "running",
     unobserved |-> FALSE, post_mortem |-> FALSE, debug_server |-> FALSE,
     output_to_console |-> FALSE, output_to_file |-> TRUE,
     launch_worker |-> TRUE, verbose |-> FALSE, srun |-> FALSE,
     cmd |-> NoCommand, temp_dir |-> None, cwd |-> "origin",
     returncode |-> None, success |-> TRUE]

\* The process ends: "ok" (returns, exit code 0), "exit1" (exit(1)),
\* "ArgumentError" (an invalid command line), "ArgumentError: stored sources"
\* (a debug server with stored sources), "ConfigError", "MongoDBError",
\* "AssertionError" or "error" (another exception ends it, non-zero exit
\* code).
StartExit(code) == [IdleStart EXCEPT !.exit = code]

IdleHook ==
    [pc |-> "idle", exp_id |-> None, env |-> NoEnv, unobserved |-> FALSE,
     procid |-> 0, localid |-> 0, exit |-> None, printed |-> FALSE,
     afterSteal |-> FALSE]

\* A staged document with the sbatch options of its batch's configuration.
StagedDocWith(id, batch, per_job, opts) ==
    [StagedDoc(id, batch, per_job) EXCEPT !.sbatch_options = opts]

\* The option sets of the lifecycle specification: none, and a forbidden one.
LifecycleOptionSets == {NoOptions, {"output"}}

\* The static fields of the staged documents: one experiments_per_job and
\* one sbatch_options per batch.
StagedCollections ==
    UNION { { c \in [D -> UNION { { StagedDocWith(i, 1, k, o) :
                                       k \in 1..MaxPerJob,
                                       o \in LifecycleOptionSets }
                                  : i \in D }] :
                \A i \in D : /\ c[i]._id = i
                             /\ \A j \in D :
                                   /\ c[i].experiments_per_job
                                        = c[j].experiments_per_job
                                   /\ c[i].sbatch_options = c[j].sbatch_options }
            : D \in { 1..n : n \in 1..NumExps } }

IdleChunk ==
    /\ input_exps = << >> /\ out_chunks = << >> /\ out_arrays = << >>
    /\ chunk_pc = "off"

IdleClaim == claim_calls = << >>

IdleCommand == command_call = << >>

IdleTools == description_call = << >> /\ project = << >>

Init ==
    /\ collection \in StagedCollections
    /\ start = [s \in Starters |-> IdleStart]
    /\ hook = [h \in HookProcs |-> IdleHook]
    /\ queue = {}
    /\ jobCount = 0
    /\ launched = {}
    /\ scripts = {}
    /\ temp_dirs = {}
    /\ IdleChunk
    /\ IdleClaim
    /\ IdleCommand
    /\ IdleTools

\* ---------------------------------------------- start_experiments
\* The options of `seml start <collection>`; a command line is the set of
\* options given (-n is given as `-n 1`).
Options ==
    {"--local", "-n 1", "--post-mortem", "--debug", "--debug-server",
     "--output-to-console", "--no-file-output", "--steal-slurm", "--no-worker",
     "--worker-gpus", "--worker-cpus", "--worker-environment-vars", "--verbose"}

CommandLines == {argv \in SUBSET Options : Cardinality(argv) <= MaxFlags}

\* The --sacred-id values drawn: no id given.
SacredIds == {None}

\* local_kwargs: the options that only work in local mode.
LocalKwargs ==
    {"--no-worker", "--steal-slurm", "--worker-gpus", "--worker-cpus",
     "--worker-environment-vars"}

\* if debug or debug_server: ... srun = True
Srun(argv) == "--debug" \in argv \/ "--debug-server" \in argv

\* non_sbatch_kwargs after the debug overrides: post_mortem and
\* output_to_console.
PostMortem(argv) == Srun(argv) \/ "--post-mortem" \in argv
OutputToConsole(argv) == Srun(argv) \/ "--output-to-console" \in argv

ArgumentErrorRaisedNever(argv) == FALSE

\* The two checks of start_experiments that raise ArgumentError.
ArgumentErrorRaised(argv) ==
    \/ "--local" \notin argv /\ argv \cap LocalKwargs # {}
    \/ /\ "--local" \notin argv /\ ~Srun(argv)
       /\ (PostMortem(argv) \/ OutputToConsole(argv))

StartedWithAnyNumber(argv, sacred_id) ==
    [IdleStart EXCEPT
        !.pc = "find",
        !.local = "--local" \in argv,
        !.steal_slurm = "--steal-slurm" \in argv,
        !.num_exps = IF "-n 1" \in argv THEN 1 ELSE 0,
        !.sacred_id = sacred_id,
        !.unobserved = Srun(argv),
        !.post_mortem = PostMortem(argv),
        !.debug_server = "--debug-server" \in argv,
        !.output_to_console = OutputToConsole(argv),
        !.output_to_file = "--no-file-output" \notin argv,
        !.launch_worker = "--no-worker" \notin argv,
        !.verbose = Srun(argv) \/ "--verbose" \in argv,
        !.srun = Srun(argv)]

\* The process after the flags are read: debug / debug_server imply
\* num_exps = 1, unobserved, post_mortem, output_to_console and the VERBOSE
\* log level.
StartedWith(argv, sacred_id) ==
    [IdleStart EXCEPT
        !.pc = "find",
        !.local = "--local" \in argv,
        !.steal_slurm = "--steal-slurm" \in argv,
        !.num_exps = IF Srun(argv) \/ "-n 1" \in argv THEN 1 ELSE 0,
        !.sacred_id = sacred_id,
        !.unobserved = Srun(argv),
        !.post_mortem = PostMortem(argv),
        !.debug_server = "--debug-server" \in argv,
        !.output_to_console = OutputToConsole(argv),
        !.output_to_file = "--no-file-output" \notin argv,
        !.launch_worker = "--no-worker" \notin argv,
        !.verbose = Srun(argv) \/ "--verbose" \in argv,
        !.srun = Srun(argv)]

\* `seml start` with the command line argv: an invalid combination of
\* options raises ArgumentError before anything else happens.
StartExperimentsWith(s, argv, sacred_id) ==
    /\ start[s].pc = "idle"
    /\ start' = [start EXCEPT
          ![s] = IF ArgumentErrorRaised(argv) THEN StartExit("ArgumentError")
                 ELSE StartedWith(argv, sacred_id)]
    /\ UNCHANGED <<collection, hook, queue, jobCount, launched, scripts, temp_dirs>>
    /\ UNCHANGED <<chunkVars, claimVars, commandVars, toolVars>>

\* The command lines of the lifecycle specification: Slurm mode, or local
\* mode with or without --steal-slurm, each with or without -n 1.
LifecycleCommandLines ==
    {argv \in SUBSET {"--local", "--steal-slurm", "-n 1"} :
        "--steal-slurm" \in argv => "--local" \in argv}

StartExperiments(s) ==
    \E argv \in LifecycleCommandLines, sacred_id \in SacredIds :
        StartExperimentsWith(s, argv, sacred_id)

\* A MongoDB filter is a function from field names to conditions: '_id' to
\* an id, 'status' to the set of an {'$in': [...]} (a single value is a
\* one-element set), 'slurm.array_id' and 'slurm.id' to the flag of
\* {'$exists': flag}. The empty filter matches every document.
NoFilter == << >>

\* slurm.id is a field no step of this engine writes: it is absent.
FieldMatches(key, cond, d) ==
    CASE key = "_id" -> d._id = cond
      [] key = "status" -> d.status \in cond
      [] key = "slurm.array_id" -> (d.array_id # None) = cond
      [] key = "slurm.id" -> ~cond

FilterMatches(filter, d) ==
    \A key \in DOMAIN filter : FieldMatches(key, filter[key], d)

\* dict.update(other): the entries of `other` replace those of `dict`.
DictUpdate(dict, other) ==
    [key \in DOMAIN dict \cup DOMAIN other |->
        IF key \in DOMAIN other THEN other[key] ELSE dict[key]]

\* build_filter_dict: {'_id': sacred_id} when an id is given, the filter
\* dictionary of the caller otherwise.
BuildFilterDict(st) ==
    IF st.sacred_id # None THEN [key \in {"_id"} |-> st.sacred_id]
    ELSE st.filter_dict

FilterDictMatches(st, d) == FilterMatches(BuildFilterDict(st), d)

\* prepare_staged_experiments: query_dict adds status in STAGED unless the
\* filter names '_id' or 'status'.
QueryDict(st) ==
    LET filter_dict == BuildFilterDict(st)
    IN IF "_id" \notin DOMAIN filter_dict /\ "status" \notin DOMAIN filter_dict
       THEN DictUpdate(filter_dict, [key \in {"status"} |-> StatesSTAGED])
       ELSE filter_dict

QueryDictMatches(st, d) == FilterMatches(QueryDict(st), d)

\* collection.find(query_dict, limit=num_exps): limit 0 is no limit.
FindResults(coll, st) ==
    LET M == {i \in DOMAIN coll : QueryDictMatches(st, coll[i])}
    IN IF st.num_exps = 0 \/ Cardinality(M) <= st.num_exps
       THEN {M}
       ELSE {S \in SUBSET M : Cardinality(S) = st.num_exps}

DocsInIdOrder(coll, S) ==
    LET ids == SortedSeq(S) IN [k \in 1..Len(ids) |-> Projection(coll[ids[k]])]

\* if unobserved: set_to_pending = False; the argument passed is
\* set_to_pending and local.
SetToPending(st) == st.local /\ ~st.unobserved

\* After prepare_staged_experiments: the debug-server check on the first
\* experiment found (IndexError when none was found), then the Slurm
\* dispatch, the local worker, or nothing with --no-worker.
AfterPrepare(st) ==
    IF st.debug_server /\ st.experiments = << >> THEN StartExit("error")
    ELSE IF st.debug_server /\ st.experiments[1].source_files
    THEN StartExit("ArgumentError: stored sources")
    ELSE IF ~st.local THEN [st EXCEPT !.pc = "queue"]
    ELSE IF st.launch_worker
    THEN [st EXCEPT !.pc = "count", !.experiments = << >>]
    ELSE StartExit("ok")

\* experiments = list(collection.find(query_dict, limit=num_exps))
PrepareFind(s) ==
    /\ start[s].pc = "find"
    /\ \E S \in FindResults(collection, start[s]) :
        LET st == [start[s] EXCEPT !.experiments = DocsInIdOrder(collection, S)]
        IN start' = [start EXCEPT
               ![s] = IF SetToPending(st) THEN [st EXCEPT !.pc = "set_pending"]
                      ELSE AfterPrepare(st)]
    /\ UNCHANGED <<collection, hook, queue, jobCount, launched, scripts, temp_dirs>>
    /\ UNCHANGED <<chunkVars, claimVars, commandVars, toolVars>>

SeqIds(experiments) == {experiments[k]._id : k \in 1..Len(experiments)}

\* update_many(..., {'$set': {'status': 'PENDING'}}): by the ids found when
\* num_exps > 0, by re-evaluating query_dict otherwise.
SetPendingTargets(coll, st) ==
    IF st.num_exps > 0
    THEN SeqIds(st.experiments) \cap DOMAIN coll
    ELSE {i \in DOMAIN coll : QueryDictMatches(st, coll[i])}

PrepareSetPending(s) ==
    /\ start[s].pc = "set_pending"
    /\ collection' = [i \in DOMAIN collection |->
          IF i \in SetPendingTargets(collection, start[s])
          THEN [collection[i] EXCEPT !.status = "PENDING"]
          ELSE collection[i]]
    /\ start' = [start EXCEPT ![s] = AfterPrepare(@)]
    /\ UNCHANGED <<hook, queue, jobCount, launched, scripts, temp_dirs>>
    /\ UNCHANGED <<chunkVars, claimVars, commandVars, toolVars>>

\* set_slurm_job_name: 'job-name' in sbatch_options, or a comment that is not
\* the collection's name, raises ConfigError.
SetSlurmJobNameRaises(sbatch_options) ==
    \/ "job-name" \in sbatch_options
    \/ "comment=other" \in sbatch_options

\* sbatch_options = exp_array[0][0]['slurm']['sbatch_options']
ArrayOptions(exp_array) == exp_array[1][1].sbatch_options

\* assert len(exp_array) == 1; assert len(exp_array[0]) == 1
SrunAssertions(exp_array) == Len(exp_array) = 1 /\ Len(exp_array[1]) = 1

\* assert not post_mortem
SbatchAssertion(st) == ~st.post_mortem

\* One turn of `for exp_array in exp_arrays` up to the call that starts the
\* job: set_slurm_job_name, then the assertions of the srun branch or of
\* the sbatch branch. The ConfigError of the sbatch branch is an outcome of
\* the step that follows.
QueueTurn(st) ==
    IF st.arrays = << >> THEN StartExit("ok")
    ELSE IF st.srun
    THEN IF SetSlurmJobNameRaises(ArrayOptions(Head(st.arrays)))
         THEN StartExit("ConfigError")
         ELSE IF ~SrunAssertions(Head(st.arrays))
         THEN StartExit("AssertionError")
         ELSE [st EXCEPT !.pc = "srun"]
    ELSE IF /\ ~SetSlurmJobNameRaises(ArrayOptions(Head(st.arrays)))
            /\ ~SbatchAssertion(st)
    THEN StartExit("AssertionError")
    ELSE [st EXCEPT !.pc = "sbatch"]

\* ----------------------------------- add_to_slurm_queue / start_sbatch_job
\* exp_arrays = batch_chunks(chunk_list(exps_list)); the loop over the arrays
\* follows.
AddToSlurmQueue(s) ==
    /\ start[s].pc = "queue"
    /\ LET arrays == BatchChunks(ChunkList(start[s].experiments))
       IN start' = [start EXCEPT
              ![s] = QueueTurn([@ EXCEPT !.arrays = arrays,
                                         !.experiments = << >>])]
    /\ UNCHANGED <<collection, hook, queue, jobCount, launched, scripts, temp_dirs>>
    /\ UNCHANGED <<chunkVars, claimVars, commandVars, toolVars>>

\* start_srun_job: the sbatch_options are stored for an observed run, then
\* `srun ... seml <collection> start --local --sacred-id <id> --debug ...`
\* runs to its end: an unobserved local run, which leaves the collection.
\* A non-zero exit of srun ends the dispatcher with exit(1); otherwise the
\* loop goes on.
StartSrunJob(s) ==
    /\ start[s].pc = "srun"
    /\ collection' =
          IF ~start[s].unobserved /\ Head(start[s].arrays)[1][1]._id \in DOMAIN collection
          THEN UpdateOne(collection, Head(start[s].arrays)[1][1]._id,
                         collection[Head(start[s].arrays)[1][1]._id])
          ELSE collection
    /\ \E returncode \in {0, 1} :
        start' = [start EXCEPT
            ![s] = IF returncode # 0 THEN StartExit("exit1")
                   ELSE QueueTurn([@ EXCEPT !.arrays = Tail(@)])]
    /\ UNCHANGED <<hook, queue, jobCount, launched, scripts, temp_dirs>>
    /\ UNCHANGED <<chunkVars, claimVars, commandVars, toolVars>>

\* start_sbatch_job: 'output' in sbatch_options raises ConfigError.
OutputOptionRaises(sbatch_options) == "output" \in sbatch_options

ConfigErrorRaisedNever(exp_array) == FALSE

\* The array's options make the dispatcher raise ConfigError before the
\* script of the array is written.
ConfigErrorRaised(exp_array) ==
    \/ SetSlurmJobNameRaises(ArrayOptions(exp_array))
    \/ OutputOptionRaises(ArrayOptions(exp_array))

\* One turn of the loop ends in ConfigError: the process is over.
SbatchConfigError(s) ==
    /\ start[s].pc = "sbatch"
    /\ ConfigErrorRaised(Head(start[s].arrays))
    /\ start' = [start EXCEPT ![s] = StartExit("ConfigError")]
    /\ UNCHANGED <<collection, hook, queue, jobCount, launched, scripts, temp_dirs>>
    /\ UNCHANGED <<chunkVars, claimVars, commandVars, toolVars>>

\* The updates start_sbatch_job makes after the submission, in order.
RecordListOneBased(exp_array) ==
    Flatten([t \in 1..Len(exp_array) |->
                [k \in 1..Len(exp_array[t]) |->
                    [id |-> exp_array[t][k]._id, task_id |-> t]]])

RecordList(exp_array) ==
    Flatten([t \in 1..Len(exp_array) |->
                [k \in 1..Len(exp_array[t]) |->
                    [id |-> exp_array[t][k]._id, task_id |-> t - 1]]])

\* path = os.path.join(SETTINGS.TMP_DIRECTORY, f'{uuid.uuid4()}.sh'): a name
\* no other script has.
NewScriptPath == jobCount + 1

\* The Slurm array tasks of a submitted script: task t runs the hook for the
\* ids of chunk t (expid_strings, indexed by SLURM_ARRAY_TASK_ID).
ArrayTasks(slurm_array_job_id, exp_array) ==
    { [array |-> slurm_array_job_id, task |-> t - 1,
       ids |-> {exp_array[t][k]._id : k \in 1..Len(exp_array[t])}]
        : t \in 1..Len(exp_array) }

\* The script is written and `sbatch <script>` succeeds: the array's tasks
\* are queued in Slurm and the job id is parsed from the output.
SbatchSubmit(s) ==
    /\ start[s].pc = "sbatch"
    /\ ~ConfigErrorRaised(Head(start[s].arrays))
    /\ jobCount < MaxJobs
    /\ LET exp_array == Head(start[s].arrays)
           slurm_array_job_id == jobCount + 1
       IN /\ queue' = queue \cup ArrayTasks(slurm_array_job_id, exp_array)
          /\ jobCount' = slurm_array_job_id
          /\ scripts' = scripts \cup {NewScriptPath}
          /\ start' = [start EXCEPT ![s].pc = "record",
                                    ![s].array_id = slurm_array_job_id,
                                    ![s].path = NewScriptPath,
                                    ![s].todo = RecordList(exp_array),
                                    ![s].arrays = Tail(@)]
    /\ UNCHANGED <<collection, hook, launched, temp_dirs>>
    /\ UNCHANGED <<chunkVars, claimVars, commandVars, toolVars>>

ScriptLeftOnSbatchError(on_disk, path) == on_disk

\* except subprocess.CalledProcessError: ... os.remove(path)
ScriptRemovedOnSbatchError(on_disk, path) == on_disk \ {path}

\* The script is written and `sbatch` exits non-zero: the dispatcher logs
\* the error, removes the script and exits 1.
SbatchFail(s) ==
    /\ start[s].pc = "sbatch"
    /\ ~ConfigErrorRaised(Head(start[s].arrays))
    /\ scripts' = ScriptRemovedOnSbatchError(scripts \cup {NewScriptPath},
                                             NewScriptPath)
    /\ start' = [start EXCEPT ![s] = StartExit("exit1")]
    /\ UNCHANGED <<collection, hook, queue, jobCount, launched, temp_dirs>>
    /\ UNCHANGED <<chunkVars, claimVars, commandVars, toolVars>>

\* The script is written and `sbatch` succeeds, but the last token of its
\* output is not a number: int(...) raises and the exception ends the process.
SbatchParseFail(s) ==
    /\ start[s].pc = "sbatch"
    /\ ~ConfigErrorRaised(Head(start[s].arrays))
    /\ jobCount < MaxJobs
    /\ queue' = queue \cup ArrayTasks(jobCount + 1, Head(start[s].arrays))
    /\ jobCount' = jobCount + 1
    /\ scripts' = scripts \cup {NewScriptPath}
    /\ start' = [start EXCEPT ![s] = StartExit("error")]
    /\ UNCHANGED <<collection, hook, launched, temp_dirs>>
    /\ UNCHANGED <<chunkVars, claimVars, commandVars, toolVars>>

DispatchRecord(d, array_id, task_id) ==
    [d EXCEPT !.status = "PENDING", !.array_id = array_id,
              !.task_id = task_id,
              !.output_file = SbatchOutputFile(array_id, task_id)]

\* One update_one of the loop over the array's experiments; after the last
\* one the script is removed and the next array is submitted.
SbatchRecord(s) ==
    /\ start[s].pc = "record"
    /\ LET u == Head(start[s].todo)
           rest == Tail(start[s].todo)
       IN /\ collection' =
                 IF u.id \in DOMAIN collection
                 THEN UpdateOne(collection, u.id,
                          DispatchRecord(collection[u.id], start[s].array_id,
                                         u.task_id))
                 ELSE collection
          /\ scripts' = IF rest # << >> THEN scripts
                        ELSE scripts \ {start[s].path}
          /\ start' = [start EXCEPT
                 ![s] = IF rest # << >> THEN [@ EXCEPT !.todo = rest]
                        ELSE IF start[s].arrays # << >>
                        THEN [@ EXCEPT !.pc = "sbatch", !.todo = << >>,
                                       !.array_id = None, !.path = None]
                        ELSE StartExit("ok")]
    /\ UNCHANGED <<hook, queue, jobCount, launched, temp_dirs>>
    /\ UNCHANGED <<chunkVars, claimVars, commandVars, toolVars>>

\* An update_one of the loop raises (the database is unreachable): the
\* exception ends the process.
SbatchRecordFail(s) ==
    /\ start[s].pc = "record"
    /\ start' = [start EXCEPT ![s] = StartExit("error")]
    /\ UNCHANGED <<collection, hook, queue, jobCount, launched, scripts, temp_dirs>>
    /\ UNCHANGED <<chunkVars, claimVars, commandVars, toolVars>>

\* ------------------------------------------------- start_local_worker
ExpQueryKeepsDefaults(st) ==
    LET status == IF st.unobserved THEN NoFilter
                  ELSE [key \in {"status"} |-> StatesPENDING]
        slurm == IF st.steal_slurm THEN NoFilter
                 ELSE [key \in {"slurm.array_id", "slurm.id"} |-> FALSE]
    IN DictUpdate(BuildFilterDict(st), DictUpdate(status, slurm))

\* exp_query: status in PENDING unless unobserved, no slurm.array_id and no
\* slurm.id unless steal_slurm; then exp_query.update(filter_dict).
ExpQuery(st) ==
    LET status == IF st.unobserved THEN NoFilter
                  ELSE [key \in {"status"} |-> StatesPENDING]
        slurm == IF st.steal_slurm THEN NoFilter
                 ELSE [key \in {"slurm.array_id", "slurm.id"} |-> FALSE]
    IN DictUpdate(DictUpdate(status, slurm), BuildFilterDict(st))

ExpQueryMatches(st, d) == FilterMatches(ExpQuery(st), d)

ExpQueryIds(coll, st) == {i \in DOMAIN coll : ExpQueryMatches(st, coll[i])}

\* jobs_counter < num_exps, where num_exps = 0 stands for int(1e30); the
\* counter is only kept when it is compared against a real limit.
BelowLimit(st) == st.num_exps = 0 \/ st.jobs_counter < st.num_exps

WorkerCount(s) ==
    /\ start[s].pc = "count"
    /\ start' = [start EXCEPT
          ![s] = IF ExpQueryIds(collection, start[s]) # {} /\ BelowLimit(start[s])
                 THEN [@ EXCEPT !.pc = "claim"]
                 ELSE StartExit("ok")]
    /\ UNCHANGED <<collection, hook, queue, jobCount, launched, scripts, temp_dirs>>
    /\ UNCHANGED <<chunkVars, claimVars, commandVars, toolVars>>

\* The step after the claim: documents that carried slurm.array_id are
\* cleaned up first, then the Slurm task is cancelled.
AfterClaimPcCancelFirst(exp) ==
    IF exp.array_id # None THEN "cancel" ELSE "job"

AfterClaimPc(exp) ==
    IF exp.array_id # None THEN "cleanup" ELSE "job"

\* find_one_and_update(exp_query, {'$set': {'status': 'RUNNING'}}): exp is
\* the document as it was before the update, or None. An unobserved worker
\* reads the document with find_one and writes nothing.
WorkerClaim(s) ==
    /\ start[s].pc = "claim"
    /\ IF ExpQueryIds(collection, start[s]) = {}
       THEN /\ start' = [start EXCEPT ![s].pc = "count"]
            /\ UNCHANGED collection
       ELSE \E i \in ExpQueryIds(collection, start[s]) :
            LET exp == collection[i] IN
            /\ collection' = IF start[s].unobserved THEN collection
                              ELSE [collection EXCEPT ![i].status = "RUNNING"]
            /\ start' = [start EXCEPT
                   ![s].exp = exp,
                   ![s].slurm_ids = [array |-> exp.array_id,
                                     task |-> exp.task_id],
                   ![s].pc = AfterClaimPc(exp)]
    /\ UNCHANGED <<hook, queue, jobCount, launched, scripts, temp_dirs>>
    /\ UNCHANGED <<chunkVars, claimVars, commandVars, toolVars>>

\* reset_slurm_dict: the keys Slurm dispatch added are dropped.
ResetSlurmDict(exp) == [exp EXCEPT !.array_id = None, !.task_id = None]

\* replace_one({'_id': exp['_id']}, exp, upsert=False) with the cleaned exp.
WorkerCleanup(s) ==
    /\ start[s].pc = "cleanup"
    /\ LET exp == ResetSlurmDict(start[s].exp) IN
       /\ collection' = UpdateOne(collection, exp._id, exp)
       /\ start' = [start EXCEPT ![s].exp = exp, ![s].pc = "cancel",
                                 ![s].cleaned = exp._id \in DOMAIN collection]
    /\ UNCHANGED <<hook, queue, jobCount, launched, scripts, temp_dirs>>
    /\ UNCHANGED <<chunkVars, claimVars, commandVars, toolVars>>

\* cancel_experiment_by_id(..., set_interrupted=False, slurm_dict=slurm_ids).
\* scancel removes the queued task, or has no effect (the task has started,
\* or the cancel is skipped for a task that holds other experiments).
WorkerCancel(s) ==
    /\ start[s].pc = "cancel"
    /\ \E effective \in BOOLEAN :
        queue' = IF effective
                 THEN {q \in queue : ~(q.array = start[s].slurm_ids.array
                                       /\ q.task = start[s].slurm_ids.task)}
                 ELSE queue
    /\ start' = [start EXCEPT ![s].pc = "job"]
    /\ UNCHANGED <<collection, hook, jobCount, launched, scripts, temp_dirs>>
    /\ UNCHANGED <<chunkVars, claimVars, commandVars, toolVars>>

\* The command of a local job: start_local_job passes verbose, unobserved,
\* post_mortem and debug_server to get_command_from_exp, and no `debug`.
LocalJobCommand(st) ==
    GetCommandFromExp(st.exp, st.verbose, st.unobserved, st.post_mortem, FALSE,
                      st.debug_server)

\* use_stored_sources = 'source_files' in exp['seml']
UseStoredSources(exp) == exp.source_files

\* temp_dir = os.path.join(SETTINGS.TMP_DIRECTORY, str(uuid.uuid4())): a name
\* no other directory has (one job runs at a time per experiment id).
NewTempDir(exp) == exp._id

\* The temp directory of the job, or None when the working directory is used.
JobTempDir(exp) == IF UseStoredSources(exp) THEN NewTempDir(exp) ELSE None

\* os.mkdir(temp_dir, mode=0o700)
MakeTempDir(dirs, temp_dir) ==
    IF temp_dir # None THEN dirs \cup {temp_dir} ELSE dirs

\* os.chdir(exp['seml']['working_dir']) without stored sources.
JobCwd(exp) == IF UseStoredSources(exp) THEN "origin" ELSE "working_dir"

FinallyKeepsTempDir(dirs, temp_dir) == dirs

\* finally: shutil.rmtree(temp_dir) when stored sources are used.
FinallyRemoveTempDir(dirs, temp_dir) ==
    IF temp_dir # None THEN dirs \ {temp_dir} ELSE dirs

\* finally: os.chdir(origin) when no stored sources are used.
FinallyCwd(exp, cwd) == IF ~UseStoredSources(exp) THEN "origin" ELSE cwd

\* if not unobserved: update_one({'_id': ...}, {'$set': {'seml.output_file': ...}})
\* when output goes to a file.
RecordOutputFile(coll, st) ==
    LET id == st.exp._id IN
    IF st.output_to_file /\ ~st.unobserved /\ id \in DOMAIN coll
    THEN UpdateOne(coll, id, [coll[id] EXCEPT !.output_file = LocalOutputFile(id)])
    ELSE coll

\* start_local_job up to the spawn of the child: the command is built, the
\* working directory is changed or the sources are restored into a fresh temp
\* directory, the output file is recorded, the child is spawned. The worker
\* runs outside of a Slurm allocation (SLURM_JOBID is unset).
StartLocalJob(s) ==
    /\ start[s].pc = "job"
    /\ LET st == start[s]
           c == LocalJobCommand(st)
       IN IF c.error # ""
          THEN /\ start' = [start EXCEPT ![s] = StartExit(c.error)]
               /\ UNCHANGED <<collection, temp_dirs>>
          ELSE /\ collection' = RecordOutputFile(collection, st)
               /\ temp_dirs' = MakeTempDir(temp_dirs, JobTempDir(st.exp))
               /\ start' = [start EXCEPT
                      ![s].pc = "child",
                      ![s].cmd = GetShellCommand(c.interpreter, c.exe,
                                                 c.config_strings),
                      ![s].temp_dir = JobTempDir(st.exp),
                      ![s].cwd = JobCwd(st.exp)]
    /\ UNCHANGED <<hook, queue, jobCount, launched, scripts>>
    /\ UNCHANGED <<chunkVars, claimVars, commandVars, toolVars>>

\* load_sources_from_db raises after the temp directory was made: `finally`
\* removes the directory and the exception ends the worker.
LocalJobSourcesFail(s) ==
    /\ start[s].pc = "job"
    /\ LocalJobCommand(start[s]).error = ""
    /\ UseStoredSources(start[s].exp)
    /\ LET temp_dir == JobTempDir(start[s].exp)
       IN temp_dirs' = FinallyRemoveTempDir(MakeTempDir(temp_dirs, temp_dir),
                                            temp_dir)
    /\ start' = [start EXCEPT ![s] = StartExit("error")]
    /\ UNCHANGED <<collection, hook, queue, jobCount, launched, scripts>>
    /\ UNCHANGED <<chunkVars, claimVars, commandVars, toolVars>>

IOErrorUpdateSkipped(coll, id, unobserved) == coll

\* except IOError: if not unobserved: update_one(..., {'$set': {'status': FAILED}})
IOErrorUpdate(coll, id, unobserved) ==
    IF ~unobserved /\ id \in DOMAIN coll
    THEN UpdateOne(coll, id, [coll[id] EXCEPT !.status = "FAILED"])
    ELSE coll

\* open(output_file, 'w'), or the spawn of the shell that appends to the
\* output file, raises IOError: the handler logs the output file's name,
\* forces the status of an observed run to FAILED, `finally` cleans up and
\* start_local_job returns False.
LocalJobIOError(s) ==
    /\ start[s].pc = "job"
    /\ LocalJobCommand(start[s]).error = ""
    /\ start[s].output_to_file
    /\ LET st == start[s]
           temp_dir == JobTempDir(st.exp)
       IN /\ collection' = IOErrorUpdate(RecordOutputFile(collection, st),
                                         st.exp._id, st.unobserved)
          /\ temp_dirs' = FinallyRemoveTempDir(MakeTempDir(temp_dirs, temp_dir),
                                               temp_dir)
          /\ start' = [start EXCEPT
                 ![s].pc = "returned", ![s].success = FALSE,
                 ![s].cwd = FinallyCwd(st.exp, JobCwd(st.exp))]
    /\ UNCHANGED <<hook, queue, jobCount, launched, scripts>>
    /\ UNCHANGED <<chunkVars, claimVars, commandVars, toolVars>>

\* The experiment process (Sacred) ends and writes its final status.
SacredFinal(coll, id, status) ==
    IF id \in DOMAIN coll THEN [coll EXCEPT ![id].status = status] ELSE coll

\* How the child ends: exit code 0 after COMPLETED, non-zero after FAILED, or
\* non-zero before the experiment process has written anything.
ChildOutcomes ==
    {[status |-> "COMPLETED", code |-> 0], [status |-> "FAILED", code |-> 1],
     [status |-> "", code |-> 1]}

\* What the experiment process has written when it ends; an unobserved run
\* writes nothing.
ChildWrites(coll, id, unobserved, outcome) ==
    IF unobserved \/ outcome.status = "" THEN coll
    ELSE SacredFinal(coll, id, outcome.status)

\* The child exits: subprocess.run returns (exit code 0) or raises
\* CalledProcessError (success = False); `finally` cleans up and
\* start_local_job returns success.
LocalChildExit(s) ==
    /\ start[s].pc = "child"
    /\ \E outcome \in ChildOutcomes :
        /\ collection' = ChildWrites(collection, start[s].exp._id,
                                     start[s].unobserved, outcome)
        /\ start' = [start EXCEPT
               ![s].pc = "returned", ![s].returncode = outcome.code,
               ![s].success = (outcome.code = 0),
               ![s].cmd = NoCommand, ![s].temp_dir = None,
               ![s].cwd = FinallyCwd(start[s].exp, @)]
    /\ temp_dirs' = FinallyRemoveTempDir(temp_dirs, start[s].temp_dir)
    /\ UNCHANGED <<hook, queue, jobCount, launched, scripts>>
    /\ UNCHANGED <<chunkVars, claimVars, commandVars, toolVars>>

InterruptRollsBack(coll, id) ==
    IF id \in DOMAIN coll THEN [coll EXCEPT ![id].status = "PENDING"] ELSE coll

\* except KeyboardInterrupt: logging.info(...); exit(1): no write.
InterruptWrites(coll, id) == coll

\* KeyboardInterrupt while the child runs: `finally` cleans up, the worker
\* logs and exits 1.
LocalJobInterrupt(s) ==
    /\ start[s].pc = "child"
    /\ collection' = InterruptWrites(collection, start[s].exp._id)
    /\ temp_dirs' = FinallyRemoveTempDir(temp_dirs, start[s].temp_dir)
    /\ start' = [start EXCEPT
           ![s] = [StartExit("exit1") EXCEPT
                      !.cwd = FinallyCwd(start[s].exp, start[s].cwd)]]
    /\ UNCHANGED <<hook, queue, jobCount, launched, scripts>>
    /\ UNCHANGED <<chunkVars, claimVars, commandVars, toolVars>>

NextJobsCounter(st) == IF st.num_exps = 0 THEN 0 ELSE st.jobs_counter + 1

AfterJobMarksFailed(coll, id, success) ==
    IF ~success /\ id \in DOMAIN coll
    THEN [coll EXCEPT ![id].status = "FAILED"] ELSE coll

\* if success is False: num_exceptions += 1: the worker writes nothing.
AfterJobWrites(coll, id, success) == coll

\* start_local_job has returned: the worker counts the job and loops.
WorkerAfterJob(s) ==
    /\ start[s].pc = "returned"
    /\ collection' = AfterJobWrites(collection, start[s].exp._id,
                                    start[s].success)
    /\ start' = [start EXCEPT ![s].pc = "count", ![s].exp = NullExp,
                              ![s].slurm_ids = NoEnv, ![s].cleaned = FALSE,
                              ![s].returncode = None, ![s].success = TRUE,
                              ![s].jobs_counter = NextJobsCounter(start[s])]
    /\ UNCHANGED <<hook, queue, jobCount, launched, scripts, temp_dirs>>
    /\ UNCHANGED <<chunkVars, claimVars, commandVars, toolVars>>

\* -------------------------------------------------- prepare_experiment
\* is_local_main_process / is_main_process: SLURM_LOCALID = 0 / SLURM_PROCID = 0.
IsLocalMainProcess(h) == h.localid = 0
IsMainProcess(h) == h.procid = 0

\* The ranks of a task: the global main, the local main of a second node and
\* a further process on that node, as <<SLURM_LOCALID, SLURM_PROCID>>.
Ranks == {<<0, 0>>, <<0, 1>>, <<1, 1>>}

\* The invocations the Slurm template makes: one per experiment of the
\* task's chunk and rank, with the task's SLURM_ARRAY_JOB_ID / _TASK_ID.
TaskEnvs(exp_id) ==
    { [array |-> t.array, task |-> t.task] : t \in {q \in queue : exp_id \in q.ids} }

\* exit(code): the process is gone; its rank, its exit code and whether it
\* printed the command are what remains of it.
HookExit(h, code) ==
    [IdleHook EXCEPT !.pc = "done", !.exit = code, !.printed = h.printed,
                     !.procid = h.procid, !.localid = h.localid]

\* All invocations of one experiment of a task, over the ranks that claim.
TaskCalls(env, exp_id) ==
    { [array |-> env.array, task |-> env.task, id |-> exp_id, rank |-> r]
        : r \in {<<0, 0>>, <<0, 1>>} }

\* A local worker has claimed exp_id while it carried the ids of task `env`
\* and is still working on it.
StolenBySomeWorker(exp_id, env) ==
    /\ InSlurmTask(env)
    /\ \E s \in Starters : /\ start[s].exp._id = exp_id
                           /\ start[s].slurm_ids = env

\* The --stored-sources-dir values drawn: the template passes the directory
\* for experiments staged with their sources.
StoredSourcesDirs == {TRUE}

\* prepare-experiment starts; a process that is not the local main exits 0.
\* The template of an sbatch array passes --unobserved only for an unobserved
\* dispatch, and start_experiments dispatches unobserved runs with srun only:
\* the hook of an array task is observed.
HookStart(h) ==
    /\ hook[h].pc \in {"idle", "done"}
    /\ \E exp_id \in HookIds, unobserved \in BOOLEAN, rank \in Ranks :
       \E env \in {NoEnv} \cup TaskEnvs(exp_id) :
        LET call == [array |-> env.array, task |-> env.task, id |-> exp_id,
                     rank |-> rank]
            h0 == [IdleHook EXCEPT
                     !.exp_id = exp_id, !.env = env,
                     !.unobserved = unobserved,
                     !.localid = rank[1], !.procid = rank[2],
                     !.afterSteal = StolenBySomeWorker(exp_id, env)]
        IN /\ InSlurmTask(env) => call \notin launched
           /\ InSlurmTask(env) => ~unobserved
           /\ launched' = IF InSlurmTask(env) /\ IsLocalMainProcess(h0)
                          THEN launched \cup {call}
                          ELSE launched
           /\ hook' = [hook EXCEPT
                  ![h] = IF IsLocalMainProcess(h0)
                         THEN [h0 EXCEPT !.pc = "claim"]
                         ELSE HookExit(h0, 0)]
    /\ UNCHANGED <<collection, start, queue, jobCount, scripts, temp_dirs>>
    /\ UNCHANGED <<chunkVars, claimVars, commandVars, toolVars>>

AfterClaimHookNoRankCheck(h) == [h EXCEPT !.pc = "persist"]

\* After a successful claim only the main process goes on.
AfterClaimHook(h) ==
    IF IsMainProcess(h) THEN [h EXCEPT !.pc = "persist"] ELSE HookExit(h, 0)

\* exp = get_experiment_and_set_running(collection, exp_id, unobserved)
HookClaim(h) ==
    /\ hook[h].pc = "claim"
    /\ LET r == GetExperimentAndSetRunning(collection, hook[h].exp_id,
                                           hook[h].unobserved, hook[h].env)
       IN /\ collection' = r.coll
          /\ hook' = [hook EXCEPT
                 ![h] = IF r.ret = NullExp THEN [@ EXCEPT !.pc = "count"]
                        ELSE AfterClaimHook(@)]
    /\ UNCHANGED <<start, queue, jobCount, launched, scripts, temp_dirs>>
    /\ UNCHANGED <<chunkVars, claimVars, commandVars, toolVars>>

\* The exit code as the docstring of prepare_experiment lists it.
NotClaimedExitCodeDocstring(count) == IF count = 0 THEN 3 ELSE 4

\* if collection.count_documents({'_id': exp_id}) == 0: exit(4) else: exit(3)
NotClaimedExitCode(count) == IF count = 0 THEN 4 ELSE 3

HookCount(h) ==
    /\ hook[h].pc = "count"
    /\ hook' = [hook EXCEPT ![h] =
          HookExit(@, NotClaimedExitCode(CountById(collection, hook[h].exp_id)))]
    /\ UNCHANGED <<collection, start, queue, jobCount, launched, scripts, temp_dirs>>
    /\ UNCHANGED <<chunkVars, claimVars, commandVars, toolVars>>

\* What raises between the claim and the print: the assertion that
\* 'source_files' is stored (with --stored-sources-dir) and the MongoDBError
\* of get_command_from_exp for a document without executable.
HookRaises(d, stored_sources_dir) ==
    \/ stored_sources_dir /\ ~d.source_files
    \/ ~d.executable

\* updates = {'seml.command': ..., 'seml.command_unresolved': ...} and
\* 'seml.temp_dir' with --stored-sources-dir.
CommandUpdates(d, h, stored_sources_dir) ==
    LET c == GetCommandFromExp(d, FALSE, h.unobserved, FALSE, FALSE, FALSE)
    IN [d EXCEPT !.command = GetShellCommand(c.interpreter, c.exe,
                                             c.config_strings),
                 !.temp_dir = IF stored_sources_dir THEN TRUE ELSE @]

\* if not unobserved: collection.update_one({'_id': exp_id}, {'$set': updates})
PersistCommand(coll, h, stored_sources_dir) ==
    IF ~h.unobserved /\ h.exp_id \in DOMAIN coll
    THEN UpdateOne(coll, h.exp_id,
                   CommandUpdates(coll[h.exp_id], h, stored_sources_dir))
    ELSE coll

\* The main process persists the command, prints it and exits 0; the
\* template evals the printed command: the experiment runs.
\* --stored-sources-dir is read here for the first time in this model.
HookPersist(h) ==
    /\ hook[h].pc = "persist"
    /\ \E stored_sources_dir \in StoredSourcesDirs :
        /\ ~HookRaises(collection[hook[h].exp_id], stored_sources_dir)
        /\ collection' = PersistCommand(collection, hook[h], stored_sources_dir)
    /\ hook' = [hook EXCEPT ![h].pc = "running", ![h].exit = 0,
                            ![h].printed = TRUE]
    /\ UNCHANGED <<start, queue, jobCount, launched, scripts, temp_dirs>>
    /\ UNCHANGED <<chunkVars, claimVars, commandVars, toolVars>>

\* The exception ends the process with exit code 1; nothing is written and
\* nothing is printed.
HookFail(h) ==
    /\ hook[h].pc = "persist"
    /\ \E stored_sources_dir \in StoredSourcesDirs :
        HookRaises(collection[hook[h].exp_id], stored_sources_dir)
    /\ hook' = [hook EXCEPT ![h] = HookExit(@, 1)]
    /\ UNCHANGED <<collection, start, queue, jobCount, launched, scripts, temp_dirs>>
    /\ UNCHANGED <<chunkVars, claimVars, commandVars, toolVars>>

\* The experiment process started by the template ends; observed runs write
\* their final status.
TaskExperimentExit(h) ==
    /\ hook[h].pc = "running"
    /\ \E status \in {"COMPLETED", "FAILED"} :
        collection' = IF hook[h].unobserved THEN collection
                      ELSE SacredFinal(collection, hook[h].exp_id, status)
    /\ hook' = [hook EXCEPT ![h] = HookExit(@, 0)]
    /\ launched' = IF InSlurmTask(hook[h].env)
                   THEN launched \cup TaskCalls(hook[h].env, hook[h].exp_id)
                   ELSE launched
    /\ UNCHANGED <<start, queue, jobCount, scripts, temp_dirs>>
    /\ UNCHANGED <<chunkVars, claimVars, commandVars, toolVars>>

\* ---------------------------------------------------- specification
StartNext(s) ==
    \/ StartExperiments(s)
    \/ PrepareFind(s)
    \/ PrepareSetPending(s)
    \/ AddToSlurmQueue(s)
    \/ SbatchConfigError(s)
    \/ SbatchSubmit(s)
    \/ SbatchFail(s)
    \/ SbatchParseFail(s)
    \/ SbatchRecord(s)
    \/ SbatchRecordFail(s)
    \/ WorkerCount(s)
    \/ WorkerClaim(s)
    \/ WorkerCleanup(s)
    \/ WorkerCancel(s)
    \/ StartLocalJob(s)
    \/ LocalJobSourcesFail(s)
    \/ LocalJobIOError(s)
    \/ LocalChildExit(s)
    \/ LocalJobInterrupt(s)
    \/ WorkerAfterJob(s)

HookNext(h) ==
    \/ HookStart(h)
    \/ HookClaim(h)
    \/ HookCount(h)
    \/ HookPersist(h)
    \/ TaskExperimentExit(h)

Next ==
    \/ \E s \in Starters : StartNext(s)
    \/ \E h \in HookProcs : HookNext(h)

Spec == Init /\ [][Next]_vars

\* ------------------------------- `seml start` on larger collections
\* Up to MaxDocs staged documents in batches 1..MaxBatch, every batch with
\* one experiments_per_job and one sbatch_options; `seml start` runs on them
\* (any mode, any number of times), no Slurm task starts meanwhile.
DispatchCollections ==
    UNION { { c \in [1..n -> UNION { { StagedDocWith(i, b, k, o) :
                                          b \in 1..MaxBatch, k \in 1..MaxPerJob,
                                          o \in OptionSets }
                                     : i \in 1..n }] :
                \A i \in 1..n :
                    /\ c[i]._id = i
                    /\ \A j \in 1..n :
                          c[i].batch_id = c[j].batch_id =>
                              /\ c[i].experiments_per_job = c[j].experiments_per_job
                              /\ c[i].sbatch_options = c[j].sbatch_options }
            : n \in 1..MaxDocs }

DispatchInit ==
    /\ collection \in DispatchCollections
    /\ start = [s \in Starters |-> IdleStart]
    /\ hook = [h \in HookProcs |-> IdleHook]
    /\ queue = {}
    /\ jobCount = 0
    /\ launched = {}
    /\ scripts = {}
    /\ temp_dirs = {}
    /\ IdleChunk
    /\ IdleClaim
    /\ IdleCommand
    /\ IdleTools

DispatchNext == \E s \in Starters : StartNext(s)

SpecDispatch == DispatchInit /\ [][DispatchNext]_vars

\* ------------------------------------------- `seml start --local`
\* Up to MaxDocs documents, with or without stored sources, STAGED or left
\* PENDING with the ids of a Slurm array task by an earlier dispatch.
LocalDocs(i) ==
    { [d EXCEPT !.source_files = src] :
        d \in {StagedDoc(i, 1, 1), DispatchRecord(StagedDoc(i, 1, 1), 1, i - 1)},
        src \in BOOLEAN }

LocalCollections ==
    UNION { { c \in [1..n -> UNION {LocalDocs(i) : i \in 1..n}] :
                \A i \in 1..n : c[i]._id = i }
            : n \in 1..MaxDocs }

LocalInit ==
    /\ collection \in LocalCollections
    /\ start = [s \in Starters |-> IdleStart]
    /\ hook = [h \in HookProcs |-> IdleHook]
    /\ queue = {}
    /\ jobCount = 0
    /\ launched = {}
    /\ scripts = {}
    /\ temp_dirs = {}
    /\ IdleChunk
    /\ IdleClaim
    /\ IdleCommand
    /\ IdleTools

\* The command lines of the local-run specification: every local-mode
\* command line, and the Slurm-mode command lines with an option that only
\* works in local mode or only with --debug.
LocalRunCommandLines ==
    {argv \in CommandLines :
        \/ "--local" \in argv
        \/ argv \cap LocalKwargs # {}
        \/ /\ "--debug" \notin argv /\ "--debug-server" \notin argv
           /\ argv \cap {"--post-mortem", "--output-to-console"} # {}}

StartLocalRun(s) ==
    \E argv \in LocalRunCommandLines, sacred_id \in SacredIds :
        StartExperimentsWith(s, argv, sacred_id)

LocalRunNext ==
    \E s \in Starters :
        \/ StartLocalRun(s)
        \/ PrepareFind(s)
        \/ PrepareSetPending(s)
        \/ WorkerCount(s)
        \/ WorkerClaim(s)
        \/ WorkerCleanup(s)
        \/ WorkerCancel(s)
        \/ StartLocalJob(s)
        \/ LocalJobSourcesFail(s)
        \/ LocalJobIOError(s)
        \/ LocalChildExit(s)
        \/ LocalJobInterrupt(s)
        \/ WorkerAfterJob(s)

SpecLocal == LocalInit /\ [][LocalRunNext]_vars

\* ------------------------------------ the option checks of `seml start`
\* `seml start` with any command line of up to MaxFlags options, up to the
\* point where the options are accepted or rejected.
StartAnyCommandLine(s) ==
    \E argv \in CommandLines, sacred_id \in SacredIds :
        StartExperimentsWith(s, argv, sacred_id)

FlagsNext == \E s \in Starters : StartAnyCommandLine(s)

SpecFlags == LocalInit /\ [][FlagsNext]_vars

\* ------------------------- `seml start --local` with a --filter-dict
\* The --filter-dict values drawn: none, a status, a list of statuses, the
\* presence of slurm.array_id.
FilterDicts ==
    {NoFilter, [key \in {"status"} |-> {"FAILED"}],
     [key \in {"status"} |-> {"PENDING", "FAILED"}],
     [key \in {"slurm.array_id"} |-> TRUE]}

\* The documents an earlier use of the collection has left: STAGED, PENDING
\* (set by `seml start --local --no-worker`), PENDING with the ids of a Slurm
\* array task (dispatched), FAILED.
WorkerDocs(i) ==
    {StagedDoc(i, 1, 1),
     [StagedDoc(i, 1, 1) EXCEPT !.status = "PENDING"],
     DispatchRecord(StagedDoc(i, 1, 1), 1, i - 1),
     [StagedDoc(i, 1, 1) EXCEPT !.status = "FAILED"]}

WorkerCollections ==
    UNION { { c \in [1..n -> UNION {WorkerDocs(i) : i \in 1..n}] :
                \A i \in 1..n : c[i]._id = i }
            : n \in 1..MaxDocs }

WorkerInit ==
    /\ collection \in WorkerCollections
    /\ start = [s \in Starters |-> IdleStart]
    /\ hook = [h \in HookProcs |-> IdleHook]
    /\ queue = {}
    /\ jobCount = 0
    /\ launched = {}
    /\ scripts = {}
    /\ temp_dirs = {}
    /\ IdleChunk
    /\ IdleClaim
    /\ IdleCommand
    /\ IdleTools

\* The command lines of the worker specification: local mode with a worker,
\* observed or --debug, with or without --steal-slurm and -n 1.
WorkerCommandLines ==
    {{"--local"} \cup argv : argv \in SUBSET {"--steal-slurm", "-n 1", "--debug"}}

\* `seml start --local ... --filter-dict J`: the filter is passed on to
\* prepare_staged_experiments and to start_local_worker.
StartExperimentsFiltered(s) ==
    /\ start[s].pc = "idle"
    /\ \E argv \in WorkerCommandLines, filter_dict \in FilterDicts :
        start' = [start EXCEPT
            ![s] = IF ArgumentErrorRaised(argv) THEN StartExit("ArgumentError")
                   ELSE [StartedWith(argv, None) EXCEPT
                            !.filter_dict = filter_dict]]
    /\ UNCHANGED <<collection, hook, queue, jobCount, launched, scripts, temp_dirs>>
    /\ UNCHANGED <<chunkVars, claimVars, commandVars, toolVars>>

\* Another local worker on the same collection claims a PENDING document
\* (its find_one_and_update).
OtherWorkerClaim ==
    /\ \E i \in DOMAIN collection :
        /\ collection[i].status \in StatesPENDING
        /\ collection' = [collection EXCEPT ![i].status = "RUNNING"]
    /\ UNCHANGED <<start, hook, queue, jobCount, launched, scripts, temp_dirs>>
    /\ UNCHANGED <<chunkVars, claimVars, commandVars, toolVars>>

WorkerNext ==
    \/ OtherWorkerClaim
    \/ \E s \in Starters :
        \/ StartExperimentsFiltered(s)
        \/ PrepareFind(s)
        \/ PrepareSetPending(s)
        \/ WorkerCount(s)
        \/ WorkerClaim(s)
        \/ WorkerCleanup(s)
        \/ WorkerCancel(s)
        \/ StartLocalJob(s)
        \/ LocalJobSourcesFail(s)
        \/ LocalJobIOError(s)
        \/ LocalChildExit(s)
        \/ LocalJobInterrupt(s)
        \/ WorkerAfterJob(s)

SpecWorker == WorkerInit /\ [][WorkerNext]_vars

\* The steps of a started `seml start --local` process.
WorkerSteps(s) ==
    \/ PrepareFind(s)
    \/ PrepareSetPending(s)
    \/ WorkerCount(s)
    \/ WorkerClaim(s)
    \/ WorkerCleanup(s)
    \/ WorkerCancel(s)
    \/ StartLocalJob(s)
    \/ LocalJobSourcesFail(s)
    \/ LocalJobIOError(s)
    \/ LocalChildExit(s)
    \/ LocalJobInterrupt(s)
    \/ WorkerAfterJob(s)

\* A started process keeps running its code, and every child it waits for
\* ends.
SpecWorkerFair == SpecWorker /\ \A s \in Starters : WF_vars(WorkerSteps(s))

\* ------------------------------------ `seml start` in Slurm mode, srun
\* The command lines of the queue specification: Slurm mode, with or without
\* the debug options.
QueueCommandLines ==
    {argv \in SUBSET {"--debug", "--debug-server", "--post-mortem", "-n 1",
                      "--no-file-output"} : Cardinality(argv) <= MaxFlags}

\* Documents with or without stored source files.
QueueCollections ==
    { [i \in DOMAIN c |-> [c[i] EXCEPT !.source_files = src]]
        : c \in DispatchCollections, src \in BOOLEAN }

QueueInit ==
    /\ collection \in QueueCollections
    /\ start = [s \in Starters |-> IdleStart]
    /\ hook = [h \in HookProcs |-> IdleHook]
    /\ queue = {}
    /\ jobCount = 0
    /\ launched = {}
    /\ scripts = {}
    /\ temp_dirs = {}
    /\ IdleChunk
    /\ IdleClaim
    /\ IdleCommand
    /\ IdleTools

StartQueue(s) ==
    \E argv \in QueueCommandLines, sacred_id \in SacredIds :
        StartExperimentsWith(s, argv, sacred_id)

QueueNext ==
    \E s \in Starters :
        \/ StartQueue(s)
        \/ PrepareFind(s)
        \/ AddToSlurmQueue(s)
        \/ StartSrunJob(s)
        \/ SbatchConfigError(s)
        \/ SbatchSubmit(s)
        \/ SbatchFail(s)
        \/ SbatchParseFail(s)
        \/ SbatchRecord(s)
        \/ SbatchRecordFail(s)

SpecQueue == QueueInit /\ [][QueueNext]_vars

\* ----------------------------------------------------- init_project
\* A path below the template or the target directory is its name split at
\* the dots: <<"config", "yaml", "template">> is config.yaml.template.
\* An entry of a directory listing is a name, a kind and, for a file, what
\* it holds: "user" (written by the user before) or "template".
ProjectName == "proj"

\* str(file_name).format_map(SafeDict(project_name=directory.name))
FormatMap(name) ==
    [k \in DOMAIN name |-> IF name[k] = "{project_name}" THEN ProjectName
                          ELSE name[k]]

\* Path.suffixes: the parts after the first dot.
Suffixes(name) == Tail(name)

\* dst.with_suffix(src.suffix.removesuffix('.template')) for a source whose
\* last suffix is .template: the last suffix of dst is replaced by ''.
WithoutLastSuffix(name) == SubSeq(name, 1, Len(name) - 1)

\* The entries of the project template: a directory named after the project,
\* a plain file, a file to fill in, a file without suffix.
TemplateEntries ==
    {[name |-> <<"{project_name}">>, kind |-> "dir"],
     [name |-> <<"README", "md">>, kind |-> "file"],
     [name |-> <<"config", "yaml", "template">>, kind |-> "file"],
     [name |-> <<"LICENSE">>, kind |-> "file"]}

\* What the user may have in the directory before.
UserEntries ==
    {[name |-> <<"proj">>, kind |-> "dir", content |-> "user"],
     [name |-> <<"README", "md">>, kind |-> "file", content |-> "user"],
     [name |-> <<"config", "yaml">>, kind |-> "file", content |-> "user"],
     [name |-> <<"config", "yaml", "template">>, kind |-> "file", content |-> "user"],
     [name |-> <<"LICENSE">>, kind |-> "file", content |-> "user"]}

\* dst.exists()
Exists(files, name) == \E f \in files : f.name = name

\* dst.mkdir()
Mkdir(files, name) ==
    files \cup {[name |-> name, kind |-> "dir", content |-> "template"]}

\* dst.write_text(...) / dst.write_bytes(...): creates or truncates.
WriteFile(files, name) ==
    {f \in files : f.name # name}
        \cup {[name |-> name, kind |-> "file", content |-> "template"]}

\* One turn of `for src in template_path.glob('**/*')`: the directory after
\* it and the exception that ends the loop, if any.
CopyEntry(files, src) ==
    LET dst == FormatMap(src.name)
    IN IF src.kind = "dir"
       THEN [files |-> IF ~Exists(files, dst) THEN Mkdir(files, dst) ELSE files,
             exit |-> ""]
       ELSE IF Exists(files, dst) THEN [files |-> files, exit |-> ""]
       ELSE IF Suffixes(src.name) = << >>
       THEN [files |-> files, exit |-> "IndexError"]
       ELSE IF src.name[Len(src.name)] = "template"
       THEN [files |-> WriteFile(files, WithoutLastSuffix(dst)), exit |-> ""]
       ELSE [files |-> WriteFile(files, dst), exit |-> ""]

ProjectInit ==
    /\ collection = << >>
    /\ start = [s \in Starters |-> IdleStart]
    /\ hook = [h \in HookProcs |-> IdleHook]
    /\ queue = {}
    /\ jobCount = 0
    /\ launched = {}
    /\ scripts = {}
    /\ temp_dirs = {}
    /\ IdleChunk
    /\ IdleClaim
    /\ IdleCommand
    /\ description_call = << >>
    /\ \E files \in SUBSET UserEntries, yes \in BOOLEAN :
        project = [pc |-> "start", files |-> files, yes |-> yes,
                   left |-> {}, exit |-> ""]

\* The directory is created if missing; a non-empty directory without --yes
\* prompts, and an empty answer ends the process with exit(1).
InitProjectStart ==
    /\ project.pc = "start"
    /\ \E answer \in BOOLEAN :
        project' = IF project.files # {} /\ ~project.yes /\ ~answer
                   THEN [project EXCEPT !.pc = "done", !.exit = "exit1"]
                   ELSE [project EXCEPT !.pc = "copy", !.left = TemplateEntries]
    /\ UNCHANGED <<dispatchVars, chunkVars, claimVars, commandVars, description_call>>

\* Copy files one-by-one, in the order glob yields them.
InitProjectCopy ==
    /\ project.pc = "copy"
    /\ project.left # {}
    /\ \E src \in project.left :
        LET r == CopyEntry(project.files, src)
        IN project' = IF r.exit # ""
                      THEN [project EXCEPT !.pc = "done", !.exit = r.exit]
                      ELSE [project EXCEPT
                               !.files = r.files, !.left = @ \ {src},
                               !.pc = IF project.left = {src} THEN "done"
                                      ELSE "copy"]
    /\ UNCHANGED <<dispatchVars, chunkVars, claimVars, commandVars, description_call>>

ProjectNext == InitProjectStart \/ InitProjectCopy

SpecProject == ProjectInit /\ [][ProjectNext]_vars

\* ------------------------------ prepare-experiment on documents that raise
\* Documents with and without executable and stored source files.
HookDocs(i) ==
    { [StagedDoc(i, 1, 1) EXCEPT !.status = status, !.executable = executable,
                                 !.source_files = source_files]
        : status \in {"STAGED", "PENDING", "COMPLETED"},
          executable \in BOOLEAN, source_files \in BOOLEAN }

HookCollections ==
    UNION { { c \in [1..n -> UNION {HookDocs(i) : i \in 1..n}] :
                \A i \in 1..n : c[i]._id = i }
            : n \in 1..NumExps }

HookInit ==
    /\ collection \in HookCollections
    /\ start = [s \in Starters |-> IdleStart]
    /\ hook = [h \in HookProcs |-> IdleHook]
    /\ queue = {}
    /\ jobCount = 0
    /\ launched = {}
    /\ scripts = {}
    /\ temp_dirs = {}
    /\ IdleChunk
    /\ IdleClaim
    /\ IdleCommand
    /\ IdleTools

HookFailNext ==
    \E h \in HookProcs :
        \/ HookStart(h)
        \/ HookClaim(h)
        \/ HookCount(h)
        \/ HookPersist(h)
        \/ HookFail(h)
        \/ TaskExperimentExit(h)

SpecHook == HookInit /\ [][HookFailNext]_vars

\* ------------------------- prepare_staged_experiments next to other processes
\* `seml start --local --no-worker [-n 1]`: the run prepares and returns.
PrepareCommandLines ==
    {{"--local", "--no-worker"} \cup argv : argv \in SUBSET {"-n 1"}}

StartPrepare(s) ==
    /\ start[s].pc = "idle"
    /\ \E argv \in PrepareCommandLines :
        start' = [start EXCEPT
            ![s] = IF ArgumentErrorRaised(argv) THEN StartExit("ArgumentError")
                   ELSE StartedWith(argv, None)]
    /\ UNCHANGED <<collection, hook, queue, jobCount, launched, scripts, temp_dirs>>
    /\ UNCHANGED <<chunkVars, claimVars, commandVars, toolVars>>

\* An external reset tool stages a failed document again.
OtherReset ==
    /\ \E i \in DOMAIN collection :
        /\ collection[i].status = "FAILED"
        /\ collection' = [collection EXCEPT ![i].status = "STAGED"]
    /\ UNCHANGED <<start, hook, queue, jobCount, launched, scripts, temp_dirs>>
    /\ UNCHANGED <<chunkVars, claimVars, commandVars, toolVars>>

\* The update_many of another `seml start --local` on the same collection.
OtherPrepare ==
    /\ \E i \in DOMAIN collection :
        /\ collection[i].status \in StatesSTAGED
        /\ collection' = [collection EXCEPT ![i].status = "PENDING"]
    /\ UNCHANGED <<start, hook, queue, jobCount, launched, scripts, temp_dirs>>
    /\ UNCHANGED <<chunkVars, claimVars, commandVars, toolVars>>

\* The experiment of another worker completes.
OtherComplete ==
    /\ \E i \in DOMAIN collection :
        /\ collection[i].status \in StatesRUNNING
        /\ collection' = [collection EXCEPT ![i].status = "COMPLETED"]
    /\ UNCHANGED <<start, hook, queue, jobCount, launched, scripts, temp_dirs>>
    /\ UNCHANGED <<chunkVars, claimVars, commandVars, toolVars>>

PrepareNext ==
    \/ OtherReset
    \/ OtherPrepare
    \/ OtherWorkerClaim
    \/ OtherComplete
    \/ \E s \in Starters :
        \/ StartPrepare(s)
        \/ PrepareFind(s)
        \/ PrepareSetPending(s)

SpecPrepare == WorkerInit /\ [][PrepareNext]_vars

\* ------------------------------------- the chunker on its own inputs
\* Input lists: up to MaxLen experiments with distinct ids, any batch ids
\* and any experiments_per_job >= 1.
ChunkInputs ==
    UNION { { e \in [1..n -> [_id : 1..MaxLen, batch_id : 1..MaxBatch,
                              experiments_per_job : 1..MaxPerJob]] :
                \A i, j \in 1..n : i # j => e[i]._id # e[j]._id }
            : n \in 0..MaxLen }

IdleDispatch ==
    /\ collection = << >>
    /\ start = [s \in Starters |-> IdleStart]
    /\ hook = [h \in HookProcs |-> IdleHook]
    /\ queue = {}
    /\ jobCount = 0
    /\ launched = {}
    /\ scripts = {}
    /\ temp_dirs = {}

ChunkInit ==
    /\ IdleDispatch
    /\ IdleClaim
    /\ IdleCommand
    /\ IdleTools
    /\ input_exps \in ChunkInputs
    /\ out_chunks = << >>
    /\ out_arrays = << >>
    /\ chunk_pc = "input"

\* exp_chunks = chunk_list(exps_list)
RunChunkList ==
    /\ chunk_pc = "input"
    /\ out_chunks' = ChunkList(input_exps)
    /\ chunk_pc' = "chunked"
    /\ UNCHANGED <<input_exps, out_arrays, dispatchVars, claimVars, commandVars, toolVars>>

\* exp_arrays = batch_chunks(exp_chunks)
RunBatchChunks ==
    /\ chunk_pc = "chunked"
    /\ out_arrays' = BatchChunks(out_chunks)
    /\ chunk_pc' = "batched"
    /\ UNCHANGED <<input_exps, out_chunks, dispatchVars, claimVars, commandVars, toolVars>>

ChunkNext == RunChunkList \/ RunBatchChunks

SpecChunks == ChunkInit /\ [][ChunkNext]_vars

\* -------------------------- concurrent get_experiment_and_set_running
\* One PENDING document, with or without the ids of a Slurm task, and up to
\* MaxCalls callers, each in a Slurm task or outside of Slurm.
ClaimEnvs == {NoEnv} \cup [array : 1..2, task : 0..1]

PendingDocs ==
    { [StagedDoc(1, 1, 1) EXCEPT !.status = "PENDING", !.array_id = e.array,
                                 !.task_id = e.task] : e \in ClaimEnvs }

ClaimInit ==
    /\ collection \in { [i \in {1} |-> d] : d \in PendingDocs }
    /\ start = [s \in Starters |-> IdleStart]
    /\ hook = [h \in HookProcs |-> IdleHook]
    /\ queue = {}
    /\ jobCount = 0
    /\ launched = {}
    /\ scripts = {}
    /\ temp_dirs = {}
    /\ IdleChunk
    /\ IdleCommand
    /\ IdleTools
    /\ claim_calls \in
          UNION { [1..n -> [env : ClaimEnvs, done : {FALSE}, ret : {"None"},
                            doc_env : {NoEnv}]]
                  : n \in 1..MaxCalls }

\* One caller's get_experiment_and_set_running(collection, 1, False): ret is
\* None or the status of the returned document; doc_env the Slurm ids the
\* document carried when the caller's filter was evaluated.
ClaimCall(c) ==
    /\ ~claim_calls[c].done
    /\ LET r == GetExperimentAndSetRunning(collection, 1, FALSE,
                                           claim_calls[c].env)
       IN /\ collection' = r.coll
          /\ claim_calls' = [claim_calls EXCEPT
                 ![c].done = TRUE,
                 ![c].ret = IF r.ret = NullExp THEN "None" ELSE r.ret.status,
                 ![c].doc_env = [array |-> collection[1].array_id,
                                 task |-> collection[1].task_id]]
    /\ UNCHANGED <<start, hook, queue, jobCount, launched, scripts, temp_dirs,
                 chunkVars, commandVars, toolVars>>

ClaimNext == \E c \in DOMAIN claim_calls : ClaimCall(c)

SpecClaim == ClaimInit /\ [][ClaimNext]_vars

\* ----------------------------- get_experiment_and_set_running, one call
\* One document of any status, with or without Slurm ids, and one observed
\* call for a stored or an unknown id, inside or outside of a Slurm task (or
\* with only one of the two environment variables set).
AllStatuses ==
    StatesSTAGED \cup StatesPENDING \cup StatesRUNNING \cup StatesTerminal

AnyDocs ==
    { [StagedDoc(1, 1, 1) EXCEPT !.status = st, !.array_id = e.array,
                                 !.task_id = e.task]
        : st \in AllStatuses, e \in ClaimEnvs }

CallEnvs ==
    ClaimEnvs \cup {[array |-> 1, task |-> None], [array |-> None, task |-> 0]}

ClaimResultInit ==
    /\ collection \in { [i \in {1} |-> d] : d \in AnyDocs }
    /\ start = [s \in Starters |-> IdleStart]
    /\ hook = [h \in HookProcs |-> IdleHook]
    /\ queue = {}
    /\ jobCount = 0
    /\ launched = {}
    /\ scripts = {}
    /\ temp_dirs = {}
    /\ IdleChunk
    /\ IdleCommand
    /\ IdleTools
    /\ claim_calls \in
          [{1} -> [env : CallEnvs, exp_id : 1..2, done : {FALSE},
                   before : {<< >>}, ret : {NullExp}]]

\* get_experiment_and_set_running(collection, exp_id, False): `before` keeps
\* the collection as it was, ret the returned document or None.
ClaimResultCall ==
    /\ ~claim_calls[1].done
    /\ LET r == GetExperimentAndSetRunning(collection, claim_calls[1].exp_id,
                                           FALSE, claim_calls[1].env)
       IN /\ collection' = r.coll
          /\ claim_calls' = [claim_calls EXCEPT
                 ![1].done = TRUE, ![1].before = collection, ![1].ret = r.ret]
    /\ UNCHANGED <<start, hook, queue, jobCount, launched, scripts, temp_dirs,
                   chunkVars, commandVars, toolVars>>

SpecClaimResult == ClaimResultInit /\ [][ClaimResultCall]_vars

\* ------------------------------------- get_command_from_exp on its own
\* One call: an experiment with or without seml.executable and any flags.
CommandInputs ==
    [exp : {[StagedDoc(i, 1, 1) EXCEPT !.executable = e]
                : i \in 1..MaxDocs, e \in BOOLEAN},
     verbose : BOOLEAN, unobserved : BOOLEAN, post_mortem : BOOLEAN,
     debug : BOOLEAN, debug_server : BOOLEAN]

CommandInit ==
    /\ IdleDispatch
    /\ IdleChunk
    /\ IdleClaim
    /\ IdleTools
    /\ command_call \in
          { <<[input |-> i, done |-> FALSE, result |-> CommandError("")]>>
              : i \in CommandInputs }

\* interpreter, exe, config = get_command_from_exp(exp, ...)
RunGetCommandFromExp ==
    /\ ~command_call[1].done
    /\ LET i == command_call[1].input
       IN command_call' =
             [command_call EXCEPT
                 ![1].done = TRUE,
                 ![1].result = GetCommandFromExp(i.exp, i.verbose, i.unobserved,
                                                 i.post_mortem, i.debug,
                                                 i.debug_server)]
    /\ UNCHANGED <<dispatchVars, chunkVars, claimVars, toolVars>>

SpecCommand == CommandInit /\ [][RunGetCommandFromExp]_vars

\* ------------------------------- collection_set_description on its own
\* A description is the sequence of its tokens: text without '$', '{', '}'
\* and '.', the delimiters "${" and "}", and ".". A config value is a leaf
\* [leaf |-> its str()] or a dictionary [dict |-> key -> value].
RECURSIVE Join(_)
Join(tokens) == IF tokens = << >> THEN "" ELSE Head(tokens) \o Join(Tail(tokens))

Positions(tokens, token) == {i \in 1..Len(tokens) : tokens[i] = token}

SetMin(S) == CHOOSE x \in S : \A y \in S : x <= y
SetMax(S) == CHOOSE x \in S : \A y \in S : x >= y

\* re.findall(r'\$\{.*\}', description) on one line: `.*` is greedy, the one
\* match runs from the first "${" to the last "}" after it.
FindAll(description) ==
    LET opens == Positions(description, "${")
    IN IF opens = {} THEN << >>
       ELSE LET first == SetMin(opens)
                closes == {j \in Positions(description, "}") : j > first}
            IN IF closes = {} THEN << >>
               ELSE <<[first |-> first, last |-> SetMax(closes)]>>

\* match[2:-1].split('.')
RECURSIVE SplitKeys(_)
SplitKeys(tokens) ==
    LET dots == Positions(tokens, ".")
    IN IF dots = {} THEN <<Join(tokens)>>
       ELSE <<Join(SubSeq(tokens, 1, SetMin(dots) - 1))>>
            \o SplitKeys(SubSeq(tokens, SetMin(dots) + 1, Len(tokens)))

\* value = value[key] for every key; a missing key, or a value that is not
\* a dictionary, raises.
RECURSIVE LookupKeys(_, _)
LookupKeys(value, keys) ==
    IF keys = << >> THEN [found |-> TRUE, value |-> value]
    ELSE IF "dict" \in DOMAIN value /\ Head(keys) \in DOMAIN value.dict
    THEN LookupKeys(value.dict[Head(keys)], Tail(keys))
    ELSE [found |-> FALSE, value |-> value]

\* str(value)
Str(value) == IF "leaf" \in DOMAIN value THEN value.leaf ELSE "{...}"

\* resolve_description: the resolved description, or exit(1) after the
\* error is logged.
ResolveDescription(description, config) ==
    LET matches == FindAll(description)
    IN IF matches = << >> THEN [exit |-> "", description |-> description]
       ELSE LET m == matches[1]
                keys == SplitKeys(SubSeq(description, m.first + 1, m.last - 1))
                r == LookupKeys(config, keys)
            IN IF ~r.found THEN [exit |-> "exit1", description |-> description]
               ELSE [exit |-> "",
                     description |->
                         SubSeq(description, 1, m.first - 1)
                         \o <<Str(r.value)>>
                         \o SubSeq(description, m.last + 1, Len(description))]

\* The pieces descriptions are made of: text, the placeholders of lr and of
\* config.lr, an empty placeholder, single delimiters.
Segments ==
    {<<"lr=">>, <<"${", "lr", "}">>, <<"${", "config", ".", "lr", "}">>,
     <<"${", "}">>, <<"${">>, <<"}">>}

RECURSIVE DescriptionsUpTo(_)
DescriptionsUpTo(n) ==
    {<< >>} \cup
    UNION { { seg \o rest : rest \in DescriptionsUpTo(n - Len(seg)) }
            : seg \in {g \in Segments : Len(g) <= n} }

Descriptions == DescriptionsUpTo(MaxTokens)

\* exp['config']: lr set, lr and a key named config, lr missing.
Configs ==
    {[dict |-> [key \in {"lr"} |-> [leaf |-> "0.01"]]],
     [dict |-> [key \in {"lr", "config"} |->
                   IF key = "lr" THEN [leaf |-> "0.01"]
                   ELSE [dict |-> [k \in {"lr"} |-> [leaf |-> "0.5"]]]]],
     [dict |-> << >>]}

\* seml.description: absent, or the stored text.
NoDescription == [present |-> FALSE, text |-> << >>]
Described(text) == [present |-> TRUE, text |-> text]

DescribedDocs(i) ==
    [_id : {i}, config : Configs,
     description : {NoDescription, Described(<<"old">>)}]

DescribedCollections ==
    UNION { { c \in [1..n -> UNION {DescribedDocs(i) : i \in 1..n}] :
                \A i \in 1..n : c[i]._id = i }
            : n \in 1..MaxDocs }

\* SETTINGS.CONFIRM_UPDATE_DESCRIPTION_THRESHOLD, as a configuration sets it.
ConfirmThresholds == {1, MaxDocs + 1}

DescriptionInit ==
    /\ collection \in DescribedCollections
    /\ start = [s \in Starters |-> IdleStart]
    /\ hook = [h \in HookProcs |-> IdleHook]
    /\ queue = {}
    /\ jobCount = 0
    /\ launched = {}
    /\ scripts = {}
    /\ temp_dirs = {}
    /\ IdleChunk
    /\ IdleClaim
    /\ IdleCommand
    /\ project = << >>
    /\ description_call \in
          { <<[description |-> d, sacred_id |-> id, yes |-> y, done |-> FALSE,
               exit |-> "", before |-> << >>]>>
              : d \in Descriptions, id \in {None} \cup (1..(MaxDocs + 1)),
                y \in BOOLEAN }

\* The experiments the call is about: the one of sacred_id, or all of them
\* (no filter given).
DescribedIds(coll, sacred_id) ==
    IF sacred_id = None THEN DOMAIN coll ELSE {sacred_id} \cap DOMAIN coll

\* The experiments that have a description other than the new one.
ToOverwrite(coll, ids, description) ==
    {i \in ids : /\ coll[i].description.present
                 /\ coll[i].description.text
                      # ResolveDescription(description, coll[i].config).description}

\* bulk_write / update_one of {'$set': {'seml.description': description}}
\* with the description resolved for each experiment.
SetDescriptions(coll, ids, description) ==
    [i \in DOMAIN coll |->
        IF i \in ids
        THEN [coll[i] EXCEPT
                 !.description =
                     Described(ResolveDescription(description,
                                                  coll[i].config).description)]
        ELSE coll[i]]

\* collection_set_description: MongoDBError for an id that is not stored,
\* exit(1) when a description does not resolve or the prompt is answered
\* with no, the update otherwise.
CollectionSetDescription ==
    /\ ~description_call[1].done
    /\ LET call == description_call[1]
           ids == DescribedIds(collection, call.sacred_id)
           failed == \E i \in ids :
                        ResolveDescription(call.description,
                                           collection[i].config).exit # ""
       IN \E threshold \in ConfirmThresholds, proceed \in BOOLEAN :
           LET asked ==
                 /\ ~call.yes
                 /\ IF call.sacred_id = None
                    THEN Cardinality(ToOverwrite(collection, ids, call.description))
                             >= threshold
                    ELSE /\ ToOverwrite(collection, ids, call.description) # {}
                         /\ threshold <= 1
               exit == IF call.sacred_id # None /\ ids = {} THEN "MongoDBError"
                       ELSE IF failed THEN "exit1"
                       ELSE IF asked /\ ~proceed THEN "exit1"
                       ELSE "ok"
           IN /\ collection' = IF exit = "ok"
                                THEN SetDescriptions(collection, ids,
                                                     call.description)
                                ELSE collection
              /\ description_call' =
                    [description_call EXCEPT
                        ![1].done = TRUE, ![1].exit = exit,
                        ![1].before = collection]
    /\ UNCHANGED <<start, hook, queue, jobCount, launched, scripts, temp_dirs,
                   chunkVars, claimVars, commandVars, project>>

SpecDescription == DescriptionInit /\ [][CollectionSetDescription]_vars

\* ================================================================ claims

\* ---- C1 (SpecClaim) -------------------------------------------------
AllCallsDone == \A c \in DOMAIN claim_calls : claim_calls[c].done

Returned == {c \in DOMAIN claim_calls :
                claim_calls[c].done /\ claim_calls[c].ret # "None"}

\* C1 as stated: of N concurrent claim calls on a PENDING document exactly
\* one returns the document, all others return None, and the document is
\* RUNNING afterwards.
C1_ExactlyOneClaimReturns ==
    AllCallsDone =>
        /\ Cardinality(Returned) = 1
        /\ collection[1].status = "RUNNING"

\* C1 amended: exactly one call finds the document PENDING (and makes it
\* RUNNING); any other call that returns the document is a Slurm-task call
\* whose SLURM_ARRAY_JOB_ID / SLURM_ARRAY_TASK_ID equal the slurm.array_id /
\* slurm.task_id stored on the document; all remaining calls return None, and
\* the document is RUNNING afterwards.
C1_OneClaimFromPending ==
    AllCallsDone =>
        /\ Cardinality({c \in Returned : claim_calls[c].ret = "PENDING"}) = 1
        /\ \A c \in Returned :
              claim_calls[c].ret # "PENDING" =>
                  /\ InSlurmTask(claim_calls[c].env)
                  /\ claim_calls[c].env = claim_calls[c].doc_env
        /\ collection[1].status = "RUNNING"

\* All calls are over: one took the PENDING document, another got None.
C1_Witness ==
    /\ AllCallsDone
    /\ Len(claim_calls) >= 2
    /\ \E c1, c2 \in DOMAIN claim_calls :
          claim_calls[c1].ret = "PENDING" /\ claim_calls[c2].ret = "None"

\* ---- C2 (Spec) ------------------------------------------------------
\* The dispatchers whose command for experiment id is running: a local
\* worker's child, or the command an observed Slurm task evals.
Executors(id) ==
    {s \in Starters : start[s].pc = "child" /\ start[s].exp._id = id}
    \cup {h \in HookProcs : /\ hook[h].pc = "running"
                            /\ ~hook[h].unobserved
                            /\ hook[h].exp_id = id}

\* C2: an experiment is executed by at most one dispatcher at a time.
C2_AtMostOneExecutor ==
    \A id \in Ids : Cardinality(Executors(id)) <= 1

\* ---- C3 (Spec) ------------------------------------------------------
\* A step of the engine: of `seml start` (orchestrator, dispatcher, worker,
\* but not the child it waits for) or of prepare-experiment (but not the
\* experiment the template runs afterwards).
EngineStep ==
    \/ \E s \in Starters : start'[s] # start[s] /\ start[s].pc # "child"
    \/ \E h \in HookProcs : hook'[h] # hook[h] /\ hook[h].pc # "running"

\* C3: no engine step changes a document whose status is COMPLETED, FAILED,
\* INTERRUPTED or KILLED at the moment of the write.
C3_NoWriteToTerminal ==
    [][EngineStep =>
          \A i \in DOMAIN collection :
              collection[i].status \in StatesTerminal
                  => collection'[i] = collection[i]]_vars

\* ---- C4 (Spec) ------------------------------------------------------
\* C4: a Preparation Hook of Slurm task (A,T) for X that starts after a
\* stealing worker has claimed X (which carried A,T) does not get the
\* document: it never reaches the command update, print and exit 0.
C4_HookAfterStealExits3 ==
    \A h \in HookProcs :
        hook[h].afterSteal /\ ~hook[h].unobserved
            => hook[h].pc \in {"claim", "count"}

\* ---- C5 (Spec) ------------------------------------------------------
\* C5: no state has a document set to RUNNING by a local worker's claim
\* while it still stores the slurm.array_id / slurm.task_id it carried.
C5_AtomicStealClaim ==
    \A s \in Starters :
        start[s].pc = "cleanup" =>
            LET d == collection[start[s].exp._id]
            IN ~(/\ d.status = "RUNNING"
                 /\ d.array_id = start[s].slurm_ids.array
                 /\ d.task_id = start[s].slurm_ids.task)

\* ---- C6 (Spec) ------------------------------------------------------
\* C6: for a claimed document that carried slurm.array_id, the cancel of its
\* Slurm task is issued (and has been issued) only with the cleaned
\* document persisted.
C6_CancelAfterCleanup ==
    \A s \in Starters :
        (start[s].slurm_ids # NoEnv /\ start[s].pc \in {"cancel", "job", "child"})
            => start[s].cleaned

\* The cancel of a stolen document's task has been issued.
C6_Witness ==
    \E s \in Starters :
        /\ start[s].pc = "job"
        /\ start[s].slurm_ids # NoEnv
        /\ collection[start[s].exp._id].array_id = None

HookStep(h) == hook'[h] # hook[h] /\ hook[h].pc \in {"claim", "count", "persist"}

\* Such a step of a rank of a Slurm task that is not the global main.
OtherRankStep(h) ==
    HookStep(h) /\ InSlurmTask(hook[h].env) /\ ~IsMainProcess(hook[h])

FlatArrays == Flatten(Flatten(out_arrays))

OfBatch(es, b) == SelectSeq(es, LAMBDA e : e.batch_id = b)

\* C10: the chunks of all arrays, concatenated, hold every input experiment
\* exactly once; every chunk holds experiments of one batch_id only; within
\* each batch the experiments keep their input order.
C10_ChunkingLaw ==
    chunk_pc = "batched" =>
        /\ Len(FlatArrays) = Len(input_exps)
        /\ \A i \in 1..Len(input_exps) :
              Cardinality({k \in 1..Len(FlatArrays) :
                              FlatArrays[k] = input_exps[i]}) = 1
        /\ \A a \in 1..Len(out_arrays) : \A c \in 1..Len(out_arrays[a]) :
              \A k \in 1..Len(out_arrays[a][c]) :
                  out_arrays[a][c][k].batch_id = out_arrays[a][c][1].batch_id
        /\ \A b \in 1..MaxBatch :
              OfBatch(FlatArrays, b) = OfBatch(input_exps, b)

\* Three experiments of two interleaved batches were chunked and batched.
C10_Witness ==
    /\ chunk_pc = "batched"
    /\ Len(input_exps) = 3
    /\ input_exps[1].batch_id = 2
    /\ input_exps[2].batch_id = 1
    /\ input_exps[3].batch_id = 2
    /\ Len(out_arrays) = 2

\* ---- C11 (SpecChunks) -----------------------------------------------
\* Every batch of the input has one experiments_per_job.
UniformPerBatch(exps) ==
    \A i, j \in 1..Len(exps) :
        exps[i].batch_id = exps[j].batch_id
            => exps[i].experiments_per_job = exps[j].experiments_per_job

\* The positions in chunks of the chunks of batch b.
ChunksOf(chunks, b) ==
    {c \in 1..Len(chunks) : chunks[c] # << >> /\ chunks[c][1].batch_id = b}

\* C11: with a uniform experiments_per_job = k per batch, every chunk of
\* chunk_list is non-empty and has at most k experiments, and within a batch
\* every chunk except the last has exactly k.
C11_ChunkSizes ==
    (chunk_pc \in {"chunked", "batched"} /\ UniformPerBatch(input_exps)) =>
        /\ \A c \in 1..Len(out_chunks) :
              /\ Len(out_chunks[c]) >= 1
              /\ Len(out_chunks[c]) <= out_chunks[c][1].experiments_per_job
        /\ \A b \in 1..MaxBatch : \A c \in ChunksOf(out_chunks, b) :
              (\E c2 \in ChunksOf(out_chunks, b) : c2 > c)
                  => Len(out_chunks[c]) = out_chunks[c][1].experiments_per_job

\* Three experiments of one batch with experiments_per_job = 2 were chunked
\* into a chunk of 2 and a chunk of 1.
C11_Witness ==
    /\ chunk_pc = "chunked"
    /\ Len(input_exps) = 3
    /\ \A i \in 1..3 : /\ input_exps[i].batch_id = 1
                       /\ input_exps[i].experiments_per_job = 2
    /\ Len(out_chunks) = 2
    /\ Len(out_chunks[1]) = 2
    /\ Len(out_chunks[2]) = 1

\* ---- C12 (SpecDispatch) ---------------------------------------------
BatchIdsOf(exps) == {exps[k].batch_id : k \in 1..Len(exps)}

ChunksOfBatchId(chunks, b) == SelectSeq(chunks, LAMBDA c : c[1].batch_id = b)

\* C12: batch_chunks makes one array per distinct batch_id, holding all
\* chunks of that batch and no other, in chunk order; the dispatcher makes
\* one sbatch submission per array, so one per batch.
C12_OneArrayPerBatch ==
    [][\A s \in Starters :
          /\ (start[s].pc = "queue" /\ start'[s].pc = "sbatch") =>
                LET exps == start[s].experiments
                    arrays == start'[s].arrays
                IN /\ Len(arrays) = Cardinality(BatchIdsOf(exps))
                   /\ \A a \in 1..Len(arrays) :
                         /\ arrays[a] # << >>
                         /\ arrays[a] = ChunksOfBatchId(ChunkList(exps),
                                                        arrays[a][1][1].batch_id)
                   /\ \A a1, a2 \in 1..Len(arrays) :
                         a1 # a2 => arrays[a1][1][1].batch_id
                                      # arrays[a2][1][1].batch_id
          /\ (start[s].pc = "sbatch" /\ start'[s].pc = "record") =>
                /\ jobCount' = jobCount + 1
                /\ start'[s].arrays = Tail(start[s].arrays)
                /\ queue' \ queue =
                      ArrayTasks(jobCount', Head(start[s].arrays))]_vars

\* Two experiments of two batches were dispatched: two submissions, one
\* array job each.
C12_Witness ==
    /\ jobCount = 2
    /\ DOMAIN collection = 1..2
    /\ collection[1].batch_id # collection[2].batch_id
    /\ collection[1].array_id # None
    /\ collection[2].array_id # None
    /\ collection[1].array_id # collection[2].array_id

\* ---- C13 (SpecDispatch) ---------------------------------------------
\* The step of the dispatcher that makes the last record of an array.
LastRecordStep(s) ==
    /\ start[s].pc = "record"
    /\ Len(start[s].todo) = 1
    /\ start'[s].exit # "error"

PassedHook(id, array_id, task_id) ==
    /\ [array |-> array_id, task |-> task_id, id |-> id, rank |-> <<0, 0>>]
           \in launched
    /\ ~\E h \in HookProcs :
          /\ hook[h].pc = "claim"
          /\ hook[h].exp_id = id
          /\ hook[h].env = [array |-> array_id, task |-> task_id]

\* C14: a document that is PENDING with slurm.array_id = A, slurm.task_id = T
\* has the hook of task (A,T) still ahead of it.
C14_PendingHasHookAhead ==
    \A i \in DOMAIN collection :
        (collection[i].status = "PENDING" /\ collection[i].array_id # None)
            => ~PassedHook(i, collection[i].array_id, collection[i].task_id)

\* ---- C15 (Spec) -----------------------------------------------------
\* C15: every experiment is PENDING when the array holding it is submitted
\* to Slurm.
C15_PendingBeforeSubmission ==
    [][\A q \in queue' \ queue : \A id \in q.ids :
          collection[id].status = "PENDING"]_vars

\* ---- C16 (SpecDispatch) ---------------------------------------------
\* C16 as stated: two dispatched experiments (distinct ids, hence distinct
\* triples) have different seml.output_file paths.
C16_OutputFilesDiffer ==
    \A i, j \in DOMAIN collection :
        (i # j /\ collection[i].output_file # NoFile
               /\ collection[j].output_file # NoFile)
            => collection[i].output_file # collection[j].output_file

\* C16 amended: two dispatched experiments have the same seml.output_file
\* only if both paths were recorded by the sbatch dispatch for one array task
\* (the path names array job and task: the experiments of a chunk share the
\* task's file); otherwise they differ.
C16_OutputFilesDifferAcrossTasks ==
    \A i, j \in DOMAIN collection :
        (i # j /\ collection[i].output_file # NoFile
               /\ collection[i].output_file = collection[j].output_file)
            => collection[i].output_file \in JobIds \X (0..(MaxDocs - 1))

\* One experiment was run by a local worker, another dispatched by sbatch.
C16_Witness ==
    \E i, j \in DOMAIN collection :
        /\ collection[i].output_file = LocalOutputFile(i)
        /\ collection[j].array_id # None
        /\ collection[j].output_file =
              SbatchOutputFile(collection[j].array_id, collection[j].task_id)

\* ---- C17 (Spec) -----------------------------------------------------
\* C17: seml.output_file of a document is written at most once: a write
\* never replaces a path recorded before.
C17_OutputFileWrittenOnce ==
    [][\A i \in DOMAIN collection :
          collection'[i].output_file # collection[i].output_file
              => collection[i].output_file = NoFile]_vars

\* ---- C18 (SpecDispatch) ---------------------------------------------
\* The options of the array the dispatcher turns to hold a caller-set
\* output or job-name, or a comment that is not the collection's name.
ForbiddenOptionsAhead(s) ==
    /\ start[s].pc = "sbatch"
    /\ LET opts == start[s].arrays[1][1][1].sbatch_options
       IN \/ "output" \in opts
          \/ "job-name" \in opts
          \/ "comment=other" \in opts

\* C18: with such options the dispatch of the batch raises ConfigError
\* before any submission of it; no script of it is on disk afterwards and no
\* document is modified.
C18_ForbiddenOptions ==
    [][\A s \in Starters :
          (ForbiddenOptionsAhead(s) /\ start'[s] # start[s]) =>
              /\ start'[s].exit = "ConfigError"
              /\ jobCount' = jobCount
              /\ queue' = queue
              /\ scripts' = scripts
              /\ collection' = collection]_vars

\* A dispatch ended in ConfigError for a batch with a foreign comment.
C18_Witness ==
    /\ \E s \in Starters : start[s].exit = "ConfigError"
    /\ \E i \in DOMAIN collection :
          /\ collection[i].sbatch_options = {"comment=other"}
          /\ collection[i].status = "STAGED"

\* ---- C19 (SpecDispatch) ---------------------------------------------
\* C19: when sbatch exits non-zero the dispatcher ends with exit code 1,
\* the script it wrote is gone, and no document is modified.
C19_SbatchFailure ==
    [][\A s \in Starters :
          (start[s].pc = "sbatch" /\ start'[s].exit = "exit1") =>
              /\ scripts' = scripts
              /\ NewScriptPath \notin scripts'
              /\ collection' = collection
              /\ queue' = queue]_vars

\* A dispatch ended with exit(1) and the documents are still staged.
C19_Witness ==
    /\ \E s \in Starters : start[s].exit = "exit1"
    /\ \A i \in DOMAIN collection : collection[i].status = "STAGED"
    /\ scripts = {}

\* ---- C20 (SpecDispatch) ---------------------------------------------
\* C20: every temp script is deleted on every path after its creation: a
\* script on disk belongs to a dispatcher that is still recording.
C20_ScriptsDeleted ==
    \A p \in scripts :
        \E s \in Starters : start[s].pc = "record" /\ start[s].path = p

\* ---- C21 (SpecFlags) ------------------------------------------------
\* The command lines the claim lists: Slurm mode with --no-worker,
\* --steal-slurm or a --worker-* option, and Slurm mode without --debug and
\* --debug-server but with --post-mortem or --output-to-console.
RejectedCommandLines ==
    {argv \in CommandLines :
        /\ "--local" \notin argv
        /\ \/ \E o \in {"--no-worker", "--steal-slurm", "--worker-gpus",
                        "--worker-cpus", "--worker-environment-vars"} : o \in argv
           \/ /\ "--debug" \notin argv /\ "--debug-server" \notin argv
              /\ ("--post-mortem" \in argv \/ "--output-to-console" \in argv)}

\* C21: `seml start` with one of these command lines ends with ArgumentError
\* in its first step: nothing was read from or written to the collection and
\* nothing was submitted to Slurm.
C21_InvalidFlagsRejected ==
    [][\A s \in Starters, argv \in RejectedCommandLines, sacred_id \in SacredIds :
          StartExperimentsWith(s, argv, sacred_id) =>
              /\ start'[s].pc = "idle"
              /\ start'[s].exit = "ArgumentError"
              /\ start'[s].experiments = << >>
              /\ UNCHANGED <<collection, queue, jobCount, scripts>>]_vars

\* A `seml start` has ended with the ArgumentError of the option checks.
C21_Witness ==
    \E s \in Starters : start[s].pc = "idle" /\ start[s].exit = "ArgumentError"

\* ---- C22 (SpecLocal) ------------------------------------------------
\* The process runs `start --local --debug -n 1` (debug without debug server).
IsLocalDebugRun(st) ==
    st.local /\ st.unobserved /\ ~st.debug_server /\ st.num_exps = 1

SetToPendingBy(coll, coll2) ==
    {i \in DOMAIN coll : coll[i].status # "PENDING" /\ coll2[i].status = "PENDING"}

\* C22: when prepare_staged_experiments of `start --local --debug -n 1` is
\* over on a collection with a STAGED document, exactly one document has been
\* set to PENDING.
C22_DebugSetsOnePending ==
    [][\A s \in Starters :
          ( /\ IsLocalDebugRun(start[s])
            /\ start[s].pc \in {"find", "set_pending"}
            /\ start'[s].pc \notin {"find", "set_pending"}
            /\ \E i \in DOMAIN collection : collection[i].status \in StatesSTAGED )
          => Cardinality(SetToPendingBy(collection, collection')) = 1]_vars

\* ---- C23 (SpecLocal) ------------------------------------------------
Tokens(cmd) == {cmd[k] : k \in 1..Len(cmd)}

\* C23: the command the worker of `start --local --debug -n 1` runs has the
\* debugpy interpreter and the arguments --pdb and --debug.
C23_DebugCommand ==
    \A s \in Starters :
        (start[s].pc = "child" /\ IsLocalDebugRun(start[s])) =>
            /\ start[s].cmd[1] = Debugpy
            /\ "--pdb" \in Tokens(start[s].cmd)
            /\ "--debug" \in Tokens(start[s].cmd)

\* ---- C24 (SpecLocal) ------------------------------------------------
\* C24: in an observed local run the worker's claim sets the status of the
\* document it takes to RUNNING, the child is spawned only for a claimed
\* document (a document claimed without Slurm ids is RUNNING at the spawn),
\* and the child's arguments contain db_collection=<name>, overwrite=<id>
\* and, unless verbose, --force.
C24_RunningThenChild ==
    [][\A s \in Starters :
          /\ ( /\ ~start[s].unobserved /\ start[s].pc = "claim"
               /\ start'[s].pc \in {"cleanup", "job"} )
             => collection'[start'[s].exp._id].status = "RUNNING"
          /\ ( /\ ~start[s].unobserved /\ start[s].pc # "child"
               /\ start'[s].pc = "child" )
             => /\ start[s].pc = "job"
                /\ start[s].exp._id \in DOMAIN collection
                /\ start[s].slurm_ids = NoEnv
                     => collection[start[s].exp._id].status = "RUNNING"
                /\ ("db_collection=" \o CollectionName) \in Tokens(start'[s].cmd)
                /\ ("overwrite=" \o ToString(start[s].exp._id))
                       \in Tokens(start'[s].cmd)
                /\ ~start[s].verbose => "--force" \in Tokens(start'[s].cmd)]_vars

\* The child of an observed, non-verbose local run is running: the document
\* is RUNNING and the command carries overwrite=<id> and --force.
C24_Witness ==
    \E s \in Starters :
        /\ start[s].pc = "child" /\ ~start[s].unobserved /\ ~start[s].verbose
        /\ collection[start[s].exp._id].status = "RUNNING"
        /\ "overwrite=1" \in Tokens(start[s].cmd)
        /\ "--force" \in Tokens(start[s].cmd)

\* ---- C25 (SpecCommand) ----------------------------------------------
\* C25: get_command_from_exp on a document without seml.executable fails with
\* ConfigError and produces no command.
C25_NoExecutableConfigError ==
    \A c \in DOMAIN command_call :
        (command_call[c].done /\ ~command_call[c].input.exp.executable) =>
            /\ command_call[c].result.error = "ConfigError"
            /\ command_call[c].result.config_strings = << >>

\* ---- C26 (SpecLocal) ------------------------------------------------
\* C26: a child that exits non-zero makes start_local_job return False, and
\* the worker's step after a failed job writes nothing to the collection.
C26_NoWriteAfterFailedChild ==
    [][\A s \in Starters :
          /\ (start[s].pc = "child" /\ start'[s].pc = "returned"
                /\ start'[s].returncode # 0) => ~start'[s].success
          /\ (start[s].pc = "returned" /\ ~start[s].success
                /\ start'[s] # start[s]) => collection' = collection]_vars

\* A child has exited non-zero after the experiment wrote FAILED, and
\* start_local_job has returned False.
C26_Witness ==
    \E s \in Starters :
        /\ start[s].pc = "returned" /\ start[s].returncode = 1
        /\ ~start[s].success
        /\ collection[start[s].exp._id].status = "FAILED"

\* ---- C27 (SpecLocal) ------------------------------------------------
\* C27: when start_local_job ends by the I/O error of the output file (it
\* returns without a child), it returns False; an observed run leaves the
\* document FAILED, an unobserved run leaves the collection as it was.
C27_IOErrorFails ==
    [][\A s \in Starters :
          (start[s].pc = "job" /\ start'[s].pc = "returned") =>
              /\ ~start'[s].success
              /\ ~start[s].unobserved
                   => collection'[start[s].exp._id].status = "FAILED"
              /\ start[s].unobserved => collection' = collection]_vars

\* start_local_job has returned False without a child, the document was
\* RUNNING-claimed by an observed worker and is FAILED.
C27_Witness ==
    \E s \in Starters :
        /\ start[s].pc = "returned" /\ ~start[s].success
        /\ start[s].returncode = None /\ ~start[s].unobserved
        /\ collection[start[s].exp._id].status = "FAILED"

\* ---- C28 (SpecLocal) ------------------------------------------------
\* C28: a KeyboardInterrupt while the child runs ends the worker process
\* with exit code 1 (it claims nothing more) and leaves the collection, and
\* with it the status of the document it was running, as it was.
C28_InterruptAbortsWorker ==
    [][\A s \in Starters :
          (start[s].pc = "child" /\ start'[s].pc # "returned"
             /\ start'[s] # start[s]) =>
              /\ start'[s].pc = "idle"
              /\ start'[s].exit = "exit1"
              /\ collection' = collection]_vars

\* The worker was interrupted and is gone; a document is still RUNNING.
C28_Witness ==
    \E s \in Starters :
        /\ start[s].pc = "idle" /\ start[s].exit = "exit1"
        /\ \E i \in DOMAIN collection : collection[i].status = "RUNNING"

\* ---- C29 (SpecLocal) ------------------------------------------------
\* C29: outside of a running local job (before start_local_job and after
\* every way it ends) no per-run temp directory exists and the working
\* directory is the one the process started in.
C29_TempDirAndCwdRestored ==
    /\ temp_dirs \subseteq {start[s].temp_dir : s \in {t \in Starters : start[t].pc = "child"}}
    /\ \A s \in Starters : start[s].pc # "child" => start[s].cwd = "origin"

\* A job with stored sources has ended, and so has one without: a failed or
\* interrupted run is over and nothing is left behind.
C29_Witness ==
    \E s \in Starters :
        /\ \/ start[s].pc = "returned" /\ ~start[s].success
           \/ start[s].pc = "idle" /\ start[s].exit \in {"exit1", "error"}
        /\ temp_dirs = {}
        /\ \E i \in DOMAIN collection :
              collection[i].source_files /\ collection[i].status # "STAGED"
                  /\ collection[i].array_id = None

\* ---- C30 (SpecClaimResult) ------------------------------------------
\* C30: an observed claim of id X. In a Slurm task (both environment
\* variables set, J and T) it succeeds iff X is stored and is PENDING or
\* carries slurm.array_id = J and slurm.task_id = T; the document becomes
\* RUNNING and keeps its Slurm ids. Otherwise it succeeds iff X is stored and
\* PENDING; the document becomes RUNNING and loses its Slurm ids. A claim
\* that does not succeed returns None and changes nothing.
C30_ClaimResult ==
    \A c \in DOMAIN claim_calls :
        LET call == claim_calls[c]
            X == call.exp_id
            stored == X \in DOMAIN call.before
            inTask == call.env.array # None /\ call.env.task # None
            succeeded == call.ret # NullExp
        IN call.done =>
            /\ succeeded <=>
                 /\ stored
                 /\ \/ call.before[X].status = "PENDING"
                    \/ /\ inTask
                       /\ call.before[X].array_id = call.env.array
                       /\ call.before[X].task_id = call.env.task
            /\ succeeded =>
                 /\ collection[X].status = "RUNNING"
                 /\ inTask => /\ collection[X].array_id = call.before[X].array_id
                              /\ collection[X].task_id = call.before[X].task_id
                 /\ ~inTask => /\ collection[X].array_id = None
                               /\ collection[X].task_id = None
                 /\ \A f \in DOMAIN collection[X] \ {"status", "array_id", "task_id"} :
                       collection[X][f] = call.before[X][f]
            /\ ~succeeded => collection = call.before

\* A Slurm-task call has taken a RUNNING document by its ids and kept them.
C30_Witness ==
    \E c \in DOMAIN claim_calls :
        /\ claim_calls[c].done
        /\ claim_calls[c].ret # NullExp
        /\ claim_calls[c].ret.status = "RUNNING"
        /\ collection[1].array_id = claim_calls[c].env.array
        /\ collection[1].array_id # None

\* ---- C31 (SpecWorker) ----------------------------------------------
\* C31: a local worker started without --steal-slurm never takes a document
\* that carries slurm.array_id at the moment of the claim: the document it
\* goes on with (sets to RUNNING, runs) has no slurm.array_id.
C31_NoStealNoSlurmDocs ==
    [][\A s \in Starters :
          ( /\ start[s].pc = "claim" /\ ~start[s].steal_slurm
            /\ start'[s].pc \in {"cleanup", "job"} )
          => collection[start'[s].exp._id].array_id = None]_vars

\* ---- C32 (SpecWorker) ----------------------------------------------
\* C32: whatever the filter_dict, the document an observed worker claims
\* (sets to RUNNING) had a status in PENDING immediately before the claim.
C32_ClaimsOnlyPending ==
    [][\A s \in Starters :
          ( /\ start[s].pc = "claim" /\ ~start[s].unobserved
            /\ start'[s].pc \in {"cleanup", "job"} )
          => collection[start'[s].exp._id].status \in StatesPENDING]_vars

\* ---- C33 (SpecWorkerFair) ------------------------------------------
\* C33: the loop of an observed local worker terminates: a worker that has
\* entered its loop ends.
C33_WorkerTerminates ==
    \A s \in Starters :
        (start[s].pc = "count" /\ ~start[s].unobserved) ~> (start[s].pc = "idle")

\* ---- C34 (SpecDescription) -----------------------------------------
\* The placeholder of the claim's example, ${config.lr}, and the text that
\* may surround it.
ConfigLrPlaceholder == <<"${", "config", ".", "lr", "}">>
TextAround == {<< >>, <<"lr=">>}

\* C34: collection_set_description with a description that holds the
\* placeholder ${config.lr} stores, for each matched experiment, the
\* description with the placeholder replaced by the experiment's config.lr
\* and the rest of the text as it is; when config.lr is missing the call
\* fails with ConfigError and stores nothing.
C34_DescriptionResolved ==
    \A c \in DOMAIN description_call :
        LET call == description_call[c]
            ids == DescribedIds(call.before, call.sacred_id)
        IN \A pre \in TextAround, post \in TextAround :
            ( /\ call.done /\ call.yes /\ ids # {}
              /\ call.description = pre \o ConfigLrPlaceholder \o post )
            => IF \A i \in ids : "lr" \in DOMAIN call.before[i].config.dict
               THEN \A i \in ids :
                       collection[i].description =
                           Described(pre \o <<call.before[i].config.dict.lr.leaf>>
                                         \o post)
               ELSE call.exit = "ConfigError" /\ collection = call.before

\* ---- C35 (SpecLocal) -----------------------------------------------
\* C35: after the claim of an observed worker, its writes up to the spawn
\* of the child (the clean-up of the Slurm fields, the output file record)
\* leave the status of the claimed document as it is.
C35_StatusKeptUntilSpawn ==
    [][\A s \in Starters :
          ( /\ ~start[s].unobserved
            /\ start[s].pc \in {"cleanup", "cancel", "job"}
            /\ start'[s].pc \in {"cancel", "job", "child"}
            /\ start[s].exp._id \in DOMAIN collection )
          => collection'[start[s].exp._id].status
                 = collection[start[s].exp._id].status]_vars

\* ---- C36 (SpecLocal) -----------------------------------------------
\* C36: a local worker in unobserved mode, with or without --steal-slurm,
\* writes to no document and cancels no Slurm task: none of its steps
\* changes the collection or the Slurm queue.
C36_UnobservedWorkerWritesNothing ==
    [][\A s \in Starters :
          (start[s].unobserved /\ start'[s] # start[s])
          => collection' = collection /\ queue' = queue]_vars

\* ---- C37 (SpecPrepare) ---------------------------------------------
\* C37: the update of prepare_staged_experiments changes exactly documents
\* it returns, and only those that are still staged at the update: no other
\* document is set to PENDING, and no returned document that has left
\* STAGED is set back.
C37_SetsPendingWhatItReturns ==
    [][\A s \in Starters :
          (start[s].pc = "set_pending" /\ start'[s].pc # "set_pending")
          => \A i \in DOMAIN collection :
                collection'[i] # collection[i]
                => /\ i \in SeqIds(start[s].experiments)
                   /\ collection[i].status \in StatesSTAGED]_vars

\* ---- C38 (SpecHook) ------------------------------------------------
\* C38: an observed prepare-experiment that raises after its claim (no
\* executable, no stored source files) ends with the document as it was
\* before the invocation, PENDING, and not RUNNING.
C38_FailedHookLeavesDocument ==
    [][\A h \in HookProcs :
          ( /\ ~hook[h].unobserved
            /\ hook[h].pc = "persist"
            /\ hook'[h].pc = "done"
            /\ hook'[h].exit # 0 )
          => collection'[hook[h].exp_id].status \in StatesPENDING]_vars

\* ---- C39 (SpecQueue) -----------------------------------------------
\* C39: no assertion of add_to_slurm_queue fails: a dispatcher never ends
\* in AssertionError, an array handed to srun has one chunk of one
\* experiment, and a dispatcher that submits with sbatch has post_mortem
\* off.
C39_QueueAssertionsHold ==
    \A s \in Starters :
        /\ start[s].exit # "AssertionError"
        /\ start[s].pc = "srun"
           => Len(Head(start[s].arrays)) = 1 /\ Len(Head(start[s].arrays)[1]) = 1
        /\ start[s].pc = "sbatch" => ~start[s].post_mortem

\* A debug run on two staged documents has reached srun with one of them.
C39_SrunReached ==
    \E s \in Starters :
        /\ start[s].pc = "srun"
        /\ start[s].srun
        /\ Cardinality({i \in DOMAIN collection :
                           collection[i].status \in StatesSTAGED}) = 2

\* ---- C40 (SpecProject) ---------------------------------------------
\* C40: no step of init_project changes or removes an entry that is in the
\* target directory: every existing file keeps its content.
C40_ExistingFilesKept ==
    [][project # << >> /\ project' # << >>
       => \A f \in project.files : f \in project'.files]_vars
====
